---- MODULE Spec2Model ----
(***************************************************************************)
(* A model of the AlloyDB Go connector: the refresh-ahead connection-info  *)
(* cache (internal/alloydb/instance.go), the lazy cache                    *)
(* (internal/alloydb/lazy.go) and the Dialer (dialer.go).                  *)
(*                                                                         *)
(* Time is counted in hours.  A refreshOperation is a record held in a     *)
(* small pool of identifiers; an identifier nobody references any more     *)
(* (not cur, not next, not the snapshot of a waiting caller) is collected  *)
(* and may be handed out again, as Go's collector does with the struct.    *)
(* Identifiers are pointers: only their equality matters, so after every   *)
(* step the operations in use are renumbered 1, 2, ... in the order cur,   *)
(* next, the callers' snapshots.                                           *)
(*                                                                         *)
(* Spec is one cache used directly by goroutines, LiveSpec the refresh     *)
(* cycle of the refresh-ahead cache under fair scheduling, and DialerSpec  *)
(* a Dialer with its Dial and Close calls, with the clock standing still.  *)
(* SoloSpec is a Dialer with one goroutine in Dial and repeated Close      *)
(* calls while the clock runs, and ConnSpec a Dialer with lazy caches,     *)
(* two caches within reach, and fair counter goroutines.  LockSpec and     *)
(* GuardSpec take the Dialer's map lock and the cache's resultGuard in     *)
(* steps of their own.  OptSpec, UriSpec and RefreshSpec call one function *)
(* each (newDialerConfig, ParseURI, refresher.performRefresh) on inputs    *)
(* drawn from bounded sets.  MdxSpec calls Dialer.metadataExchange again   *)
(* and again on a pooled buffer, EvictSpec is a Dialer with refresh-ahead  *)
(* caches and two caches within reach, CloseSpec follows two goroutines    *)
(* through Dialer.Close, and WorkSpec the two goroutines of one            *)
(* performRefresh.                                                         *)
(***************************************************************************)
EXTENDS Integers, FiniteSets, Sequences, TLC

\* ------------------------------------------------------------------ bounds
\* the wall clock runs from 0 to MaxTime, in steps of TickStep hours
MaxTime == 36
TickStep == 12
\* the control plane (or the rate limiter) fails at most MaxFails refreshes
\* of an open cache; refreshes of a closed cache fail without limit
MaxFails == 1
\* the open-connection counter is CounterBits wide
CounterBits == 3
\* Dialer.Close is called at most MaxCloses times
MaxCloses == 2

\* ------------------------------------------------------- program constants
\* instance.go:33  refreshBuffer = 12 * time.Hour
RefreshBuffer == 12
\* the lifetime of the certificates the control plane issues (the fake
\* control plane of the tests: certExpiry = now + 24h)
CertLifetime == 24

Max(a, b) == IF a >= b THEN a ELSE b
Min(S) == CHOOSE x \in S : \A y \in S : x <= y

\* --------------------------------------------------------------- universes
\* goroutines calling ConnectInfo / ConnectionInfo / ForceRefresh on a cache
CallerSeq == <<"c1", "c2">>
Callers == {CallerSeq[k] : k \in DOMAIN CallerSeq}
\* goroutines calling Dialer.Dial
DialSeq == <<"d1", "d2">>
Dials == {DialSeq[k] : k \in DOMAIN DialSeq}
\* the identifiers of the caches: the cache of the cache-level specification,
\* and the caches a Dialer can reach (the one in its map, and one removed
\* from the map that a Dial still holds)
CacheIds == {1, 2}
\* the pool of refreshOperation identifiers of one cache
OpIds == 1 .. (Cardinality(Callers) + Cardinality(Dials) + 4)
\* the nil *refreshOperation
NoOp == 0
\* the zero time.Time: the expiry of the zero refreshResult and the
\* Expiration of the zero ConnectionInfo; it is before every instant
NoExpiry == -1

VARIABLES
    now,          \* time.Now(), in hours
    lazyRefresh,  \* Dialer.lazyRefresh: which cache variant is built
    pool,         \* the identifiers the Dialer's caches are allocated at
    inst,         \* the refresh-ahead caches (Instance), by cache id
    lazy,         \* the lazy caches (LazyRefreshCache), by cache id
    cpFails,      \* refreshes of open caches failed so far
    callers,      \* the goroutines using the cache directly
    closed,       \* Dialer.closed (the channel is closed)
    closer,       \* where the goroutine calling Dialer.Close is
    closeCalls,   \* the calls of Dialer.Close that have returned
    cache,        \* Dialer.cache: instance URI -> monitoredCache
    dials,        \* the goroutines inside Dialer.Dial
    conns,        \* the instrumented connections Dial returned, per dial
    recorded,     \* the last open_connections value recorded per instance
    args,         \* the arguments of the function called on its own
    ret,          \* what that function returned
    tasks         \* the goroutines of a call followed step by step

vars == <<now, lazyRefresh, pool, inst, lazy, cpFails, callers,
          closed, closer, closeCalls, cache, dials, conns, recorded,
          args, ret, tasks>>
\* a function called on its own: newDialerConfig, ParseURI; and the
\* goroutines of one call: those in Dialer.Close, those of performRefresh
call == <<args, ret, tasks>>
\* the Dialer's own state but for the goroutines inside Dial
dialerRest == <<closed, closer, closeCalls, cache, conns, recorded>>
dialerVars == <<dialerRest, dials>>


\* ------------------------------------------------------ refreshOperation
\* st: "free"      not allocated
\*     "scheduled" time.AfterFunc armed, the function has not started
\*     "stopped"   timer.Stop() succeeded: the function never runs
\*     "running"   the function runs performRefresh
\*     "ready"     performRefresh returned and close(res.ready) was executed;
\*                 the function has not yet taken resultGuard
\*     "done"      the function has returned
\* err/expiry: res.err != nil / res.result.expiry, meaningful once ready
\* due: when the timer fires;  sawCancel: i.ctx was cancelled when
\* performRefresh began;  pre: the operation existed before the latest
\* ForceRefresh that rescheduled (history, for the ordering claims);
\* timed: the context performRefresh runs under has a deadline;
\* nth: history, the place of the operation in the order in which the
\* refreshes of its cache started (0: not started), counted among the
\* operations still in use
FreeOp == [st |-> "free", err |-> FALSE, expiry |-> NoExpiry, due |-> 0,
           sawCancel |-> FALSE, pre |-> FALSE, timed |-> FALSE, nth |-> 0]

Live == {"scheduled", "running", "ready"}

\* an operation whose ready channel is closed from the start
ReadyFromStart(o) == TRUE

\* <-r.ready does not block
IsReady(o) == o.st \in {"ready", "done"}

\* refreshOperation.IsValid, instance.go:110-121
IsValid(o) ==
    IF ~IsReady(o) THEN FALSE
    ELSE IF o.err \/ now > o.expiry THEN FALSE
    ELSE TRUE

\* refreshOperation.Cancel, instance.go:95-97: timer.Stop() reports whether
\* the call stopped the timer
Cancel(o) == o.st = "scheduled"

\* --------------------------------------------------------------- Instance
\* owned: the cache sits behind a Dialer, which alone holds pointers to it
NoInstance ==
    [alive |-> FALSE, owned |-> FALSE, cur |-> NoOp, next |-> NoOp,
     ops |-> [o \in OpIds |-> FreeOp], cancelled |-> FALSE,
     lastGood |-> NoExpiry, goodSinceForce |-> NoExpiry, owed |-> FALSE,
     guard |-> "", served |-> 0]

\* served: history, the place (as nth) of the latest-started refresh whose
\* record a call of ConnectInfo has returned (0: none yet)

\* guard: who holds i.resultGuard: "" (nobody), the goroutine reading cur,
\* "force" (ForceRefresh) or "refresh" (the function of a refresh)
\* a goroutine that keeps resultGuard when it is done with cur and next
GuardKept(g) == g

\* i.resultGuard.RUnlock() and the deferred i.resultGuard.Unlock(),
\* instance.go:201, 215, 234
GuardUnlock(g) == ""

\* the operations of cache i that a goroutine holds a pointer to
CallerRefs(cs, i) ==
    {cs[c].snap : c \in {x \in Callers : cs[x].pc # "idle" /\ cs[x].cid = i}}
DialRefs(ds, i) ==
    {ds[d].snap : d \in {x \in Dials : ds[x].cid = i /\ ds[x].snap # NoOp}}
Refs(cs, ds, i) == CallerRefs(cs, i) \cup DialRefs(ds, i)

\* the collector: an operation that is neither cur nor next, is not armed or
\* running and is referenced by no goroutine is gone
Kept(c, refs) ==
    (({c.cur, c.next} \cup refs) \ {NoOp})
        \cup {o \in OpIds : c.ops[o].st \in Live}

\* the pointers into cache i in a fixed order: cur, next, the snapshots of
\* the callers and of the dials, then every identifier
PointerOrder(c, cs, ds, i) ==
    <<c.cur, c.next>>
        \o [k \in DOMAIN CallerSeq |->
               IF cs[CallerSeq[k]].pc # "idle" /\ cs[CallerSeq[k]].cid = i
               THEN cs[CallerSeq[k]].snap ELSE NoOp]
        \o [k \in DOMAIN DialSeq |->
               IF ds[DialSeq[k]].cid = i THEN ds[DialSeq[k]].snap ELSE NoOp]
        \o [k \in OpIds |-> k]

FirstPos(seq, x) == Min({k \in DOMAIN seq : seq[k] = x})

\* the number an operation in use gets
Renumber(c, cs, ds, i) ==
    LET kept == Kept(c, Refs(cs, ds, i))
        ord == PointerOrder(c, cs, ds, i)
    IN  [o \in OpIds \cup {NoOp} |->
            IF o \in kept
            THEN Cardinality({x \in kept : FirstPos(ord, x) <= FirstPos(ord, o)})
            ELSE NoOp]

Collect(c, m) ==
    LET ops == [n \in OpIds |->
                  IF \E o \in OpIds : m[o] = n
                  THEN c.ops[CHOOSE o \in OpIds : m[o] = n] ELSE FreeOp]
        places == ({ops[n].nth : n \in OpIds} \cup {c.served}) \ {0}
    IN  [c EXCEPT !.cur = m[c.cur], !.next = m[c.next],
                  !.served = Cardinality({x \in places : x <= c.served}),
                  !.ops = [n \in OpIds |->
                      [ops[n] EXCEPT !.nth =
                          Cardinality({x \in places : x <= ops[n].nth})]]]

\* the identifier the next &refreshOperation{} gets
NewOpId(c, refs) ==
    Min({o \in OpIds : /\ o \notin ({c.cur, c.next} \cup refs)
                       /\ c.ops[o].st \notin Live})

\* Instance.scheduleRefresh, instance.go:226-229 and 259: a new operation whose
\* timer fires d hours from now; the function it runs is FireTimer,
\* FinishRefresh and CompleteRefresh below
scheduleRefresh(c, id, d) ==
    [c EXCEPT !.ops[id] = [FreeOp EXCEPT !.st = "scheduled", !.due = now + d]]

\* NewInstance, instance.go:161-181
NewInstance ==
    LET c0 == [NoInstance EXCEPT !.alive = TRUE]
        id == NewOpId(c0, {})
        c1 == scheduleRefresh(c0, id, 0)
    IN  [c1 EXCEPT !.cur = id, !.next = id]

\* ------------------------------------------------------ LazyRefreshCache
\* cached: the Expiration of c.cached (NoExpiry: the zero ConnectionInfo);
\* mu: the goroutine holding c.mu across the control-plane call ("" when
\* free); shut: history, Close was called; bounded: the context of the
\* control-plane call under way has a deadline
NoLazy == [alive |-> FALSE, needsRefresh |-> FALSE, cached |-> NoExpiry,
           mu |-> "", shut |-> FALSE, bounded |-> FALSE]
\* NewLazyRefreshCache, lazy.go:42-60
NewLazyRefreshCache == [NoLazy EXCEPT !.alive = TRUE]

\* ---------------------------------------------------------------- callers
\* pc:  "idle"; "wait" (in refreshOperation.Wait); "refreshing" (in the lazy
\*      cache's control-plane call, holding c.mu); "ret" (returned)
\* snap: res of Instance.result;  res: "ok" | "err" | "ctx" once returned
\* history, taken when the call read cur: sPre (the operation predates the
\* latest rescheduling ForceRefresh), sGood / sGoodEver (a successful record
\* obtained since the latest ForceRefresh / ever was unexpired), sClosed (the
\* cache was closed)
IdleCaller ==
    [pc |-> "idle", cid |-> Min(CacheIds), snap |-> NoOp, res |-> "none",
     sPre |-> FALSE, sGood |-> FALSE, sGoodEver |-> FALSE,
     sClosed |-> FALSE]

\* the cache of the cache-level specification
TheCache == Min(CacheIds)
\* result only reads the cache, so what one reader can observe any number of
\* readers can: the refresh-ahead cache is read by one goroutine
Readers == {CallerSeq[1]}

\* a Dialer's cache that is in the map or in the local variable of a Dial
Reachable(i, mp, ds) ==
    \/ \E u \in DOMAIN mp : mp[u].cid = i
    \/ \E d \in Dials : ds[d].cid = i

\* every action that changes cache i ends here: c is the cache and cs, ds
\* the callers and dials after the step.  A Dialer's cache that removeCached
\* took out of the map and that no Dial holds any more cannot be reached
\* again: its identifier is free for the next cache.
Commit(i, c, cs, ds) ==
    \E cc \in {c} : \E m \in {Renumber(cc, cs, ds, i)} :
        /\ inst' = [inst EXCEPT ![i] =
              IF cc.owned /\ ~Reachable(i, cache, ds)
              THEN NoInstance ELSE Collect(cc, m)]
        /\ callers' = [x \in Callers |->
              IF cs[x].pc # "idle" /\ cs[x].cid = i
              THEN [cs[x] EXCEPT !.snap = m[cs[x].snap]] ELSE cs[x]]
        /\ dials' = [x \in Dials |->
              IF ds[x].cid = i
              THEN [ds[x] EXCEPT !.snap = m[ds[x].snap]] ELSE ds[x]]

\* ------------------------------------------------------------- the clock
Tick ==
    /\ now + TickStep <= MaxTime
    /\ now' = now + TickStep
    /\ UNCHANGED <<lazyRefresh, pool, call, inst, lazy, cpFails, callers, dialerVars>>

\* --------------------------------------------- the function of AfterFunc
\* instance.go:229-230: the timer fires and the function enters
\* performRefresh.  part_013:248-252: a context already cancelled makes it
\* return at once.  part_013:247: ctx, cancel :=
\* context.WithTimeout(ctx, r.timeout), whatever the context handed in.
WithTimeout(hasDeadline) == TRUE

FireTimer(i) ==
    \E o \in OpIds :
        /\ inst[i].alive
        /\ inst[i].ops[o].st = "scheduled"
        /\ inst[i].ops[o].due <= now
        /\ Commit(i, [inst[i] EXCEPT !.ops[o].st = "running",
                                     !.ops[o].nth = 1 + Cardinality(
                                         ({inst[i].ops[x].nth : x \in OpIds}
                                          \cup {inst[i].served}) \ {0}),
                                     !.ops[o].due = 0,
                                     !.ops[o].timed = WithTimeout(FALSE),
                                     !.ops[o].sawCancel = inst[i].cancelled],
                  callers, dials)
        /\ UNCHANGED <<now, lazyRefresh, pool, call, lazy, cpFails, dialerRest>>

\* a performRefresh that does not look at the context before it starts
performRefreshIgnoresCancel(sawCancel, cancelledNow, mayFail) ==
    {[err |-> FALSE, expiry |-> now + CertLifetime]}
         \cup (IF mayFail \/ cancelledNow
               THEN {[err |-> TRUE, expiry |-> NoExpiry]} ELSE {})

\* refresher.performRefresh, part_013:238-314: the results it can return for
\* an operation that began with the context cancelled or not, the context
\* being cancelled now or not.  A cancellation that arrives while the two
\* calls are under way races their answers in the selects (289-306).
performRefresh(sawCancel, cancelledNow, mayFail) ==
    IF sawCancel
    THEN {[err |-> TRUE, expiry |-> NoExpiry]}
    ELSE {[err |-> FALSE, expiry |-> now + CertLifetime]}
         \cup (IF mayFail \/ cancelledNow
               THEN {[err |-> TRUE, expiry |-> NoExpiry]} ELSE {})

\* instance.go:230-231: res.result, res.err = performRefresh(...);
\* close(res.ready)
FinishRefresh(i) ==
    \E o \in OpIds :
      \E r \in performRefresh(inst[i].ops[o].sawCancel, inst[i].cancelled,
                              cpFails < MaxFails) :
        /\ inst[i].alive
        /\ inst[i].ops[o].st = "running"
        /\ cpFails' = IF r.err /\ ~inst[i].cancelled /\ ~inst[i].ops[o].sawCancel
                      THEN cpFails + 1 ELSE cpFails
        /\ Commit(i, [inst[i] EXCEPT !.ops[o].st = "ready",
                                     !.ops[o].timed = FALSE,
                                     !.ops[o].err = r.err,
                                     !.ops[o].expiry = r.expiry],
                  callers, dials)
        /\ UNCHANGED <<now, lazyRefresh, pool, call, lazy, dialerRest>>

\* a failed refresh that always takes the place of cur
FailedRefreshDisplaces(c, o, refs) ==
    LET id == NewOpId(c, refs)
        c1 == scheduleRefresh(c, id, 0)
    IN  [c1 EXCEPT !.next = id, !.owed = TRUE, !.cur = o]

\* a failed refresh after which nothing is scheduled
FailedRefreshDropped(c, o, refs) ==
    LET c2 == [c EXCEPT !.owed = TRUE]
    IN  IF ~IsValid(c.ops[c.cur]) THEN [c2 EXCEPT !.cur = o] ELSE c2

\* instance.go:236-247: the refresh failed
FailedRefresh(c, o, refs) ==
    LET id == NewOpId(c, refs)
        c1 == scheduleRefresh(c, id, 0)
        c2 == [c1 EXCEPT !.next = id, !.owed = TRUE]
    IN  IF ~IsValid(c.ops[c.cur]) THEN [c2 EXCEPT !.cur = o] ELSE c2

\* instance.go:248-257: the refresh succeeded
SucceededRefresh(c, o, refs) ==
    LET c1 == [c EXCEPT !.cur = o, !.owed = FALSE,
                        !.lastGood = c.ops[o].expiry,
                        !.goodSinceForce = c.ops[o].expiry]
        id == NewOpId(c1, refs)
        nextRefresh == c.ops[o].expiry - RefreshBuffer
        c2 == scheduleRefresh(c1, id, Max(0, nextRefresh - now))
    IN  IF c.cancelled THEN c1 ELSE [c2 EXCEPT !.next = id]

\* instance.go:233-258: the function takes resultGuard, updates cur and
\* next, and returns
CompleteRefresh(i) ==
    \E o \in OpIds :
        /\ inst[i].alive
        /\ inst[i].ops[o].st = "ready"
        /\ LET c == [inst[i] EXCEPT !.ops[o].st = "done"]
               refs == Refs(callers, dials, i)
               r == IF c.ops[o].err THEN FailedRefresh(c, o, refs)
                    ELSE SucceededRefresh(c, o, refs)
           IN  Commit(i, [r EXCEPT !.guard = GuardUnlock(@)], callers, dials)
        /\ UNCHANGED <<now, lazyRefresh, pool, call, lazy, cpFails, dialerRest>>

\* the history every rescheduling ForceRefresh records: the operations that
\* exist now predate it
MarkPre(c) ==
    [c EXCEPT !.ops = [o \in OpIds |->
        [c.ops[o] EXCEPT !.pre = (c.ops[o].st # "free")]]]

\* a ForceRefresh that schedules a refresh whatever next is doing
ForceRefreshNoCancelCheck(c, refs) ==
    LET id == NewOpId(c, refs)
        c2 == scheduleRefresh(MarkPre(c), id, 0)
    IN  [c2 EXCEPT !.next = id, !.cur = id, !.goodSinceForce = NoExpiry]

\* a ForceRefresh that leaves cur where it was
ForceRefreshNoPin(c, refs) ==
    IF Cancel(c.ops[c.next])
    THEN LET id == NewOpId(c, refs)
             c1 == [MarkPre(c) EXCEPT !.ops[c.next].st = "stopped",
                                      !.ops[c.next].due = 0]
             c2 == scheduleRefresh(c1, id, 0)
         IN  [c2 EXCEPT !.next = id, !.goodSinceForce = NoExpiry]
    ELSE [c EXCEPT !.goodSinceForce = NoExpiry]

\* a ForceRefresh whose Cancel does not stop the timer
ForceRefreshNoStop(c, refs) ==
    IF Cancel(c.ops[c.next])
    THEN LET id == NewOpId(c, refs)
             c2 == scheduleRefresh(MarkPre(c), id, 0)
         IN  [c2 EXCEPT !.next = id, !.cur = id, !.goodSinceForce = NoExpiry]
    ELSE [c EXCEPT !.cur = c.next, !.goodSinceForce = NoExpiry]

\* a ForceRefresh that does not leave a refresh under way alone: it
\* schedules another one beside it
ForceRefreshBesideRunning(c, refs) ==
    IF Cancel(c.ops[c.next]) \/ c.ops[c.next].st = "running"
    THEN LET id == NewOpId(c, refs)
             c1 == IF Cancel(c.ops[c.next])
                   THEN [MarkPre(c) EXCEPT !.ops[c.next].st = "stopped",
                                           !.ops[c.next].due = 0]
                   ELSE MarkPre(c)
             c2 == scheduleRefresh(c1, id, 0)
         IN  [c2 EXCEPT !.next = id, !.cur = id, !.goodSinceForce = NoExpiry]
    ELSE [c EXCEPT !.cur = c.next, !.goodSinceForce = NoExpiry]

\* Instance.ForceRefresh, instance.go:200-209, as a function of the cache
DoForceRefresh(c, refs) ==
    IF Cancel(c.ops[c.next])
    THEN LET id == NewOpId(c, refs)
             c1 == [MarkPre(c) EXCEPT !.ops[c.next].st = "stopped",
                                      !.ops[c.next].due = 0]
             c2 == scheduleRefresh(c1, id, 0)
         IN  [c2 EXCEPT !.next = id, !.cur = id, !.goodSinceForce = NoExpiry]
    ELSE [c EXCEPT !.cur = c.next, !.goodSinceForce = NoExpiry]

\* a goroutine calls ForceRefresh on the cache
ForceRefresh(i) ==
    /\ inst[i].alive
    /\ Commit(i, [DoForceRefresh(inst[i], Refs(callers, dials, i))
                     EXCEPT !.guard = GuardUnlock(@)], callers, dials)
    /\ UNCHANGED <<now, lazyRefresh, pool, call, lazy, cpFails, dialerRest>>

\* Instance.Close, instance.go:186-188: i.cancel()
DoClose(c) == [c EXCEPT !.cancelled = TRUE]

Close(i) ==
    /\ inst[i].alive
    /\ inst' = [inst EXCEPT ![i] = DoClose(inst[i])]
    /\ UNCHANGED <<now, lazyRefresh, pool, call, lazy, cpFails, callers, dialerVars>>

\* ------------------------------------------ Instance.ConnectInfo / result
\* instance.go:213-215: res := i.cur, under the read lock
result(c, i) ==
    /\ inst[i].alive
    /\ callers[c].pc = "idle"
    /\ Commit(i, [inst[i] EXCEPT !.guard = GuardUnlock(@)],
              [callers EXCEPT ![c] =
                  [IdleCaller EXCEPT
                      !.pc = "wait", !.cid = i, !.snap = inst[i].cur,
                      !.sPre = inst[i].ops[inst[i].cur].pre,
                      !.sGood = (inst[i].goodSinceForce >= now),
                      !.sGoodEver = (inst[i].lastGood >= now),
                      !.sClosed = inst[i].cancelled]],
              dials)
    /\ UNCHANGED <<now, lazyRefresh, pool, call, lazy, cpFails, dialerRest>>

\* refreshOperation.Wait, instance.go:100-103: case <-r.ready
WaitReady(c) ==
    LET i == callers[c].cid
        o == inst[i].ops[callers[c].snap]
    IN  /\ callers[c].pc = "wait"
        /\ IsReady(o)
        /\ callers' = [callers EXCEPT ![c].pc = "ret",
                          ![c].res = IF o.err THEN "err" ELSE "ok"]
        /\ UNCHANGED <<now, lazyRefresh, pool, call, inst, lazy, cpFails, dialerVars>>

\* refreshOperation.Wait, instance.go:104-105: the caller's context is
\* cancelled and the select takes case <-ctx.Done()
WaitCtxDone(c) ==
    /\ callers[c].pc = "wait"
    /\ callers' = [callers EXCEPT ![c].pc = "ret", ![c].res = "ctx"]
    /\ UNCHANGED <<now, lazyRefresh, pool, call, inst, lazy, cpFails, dialerVars>>

\* the caller drops the result; its pointer to the operation goes with it
Return(c) ==
    /\ callers[c].pc = "ret"
    /\ Commit(callers[c].cid,
              IF callers[c].res = "ok" /\ callers[c].snap # NoOp
              THEN [inst[callers[c].cid] EXCEPT !.served =
                       Max(@, inst[callers[c].cid].ops[callers[c].snap].nth)]
              ELSE inst[callers[c].cid],
              [callers EXCEPT ![c] = IdleCaller], dials)
    /\ UNCHANGED <<now, lazyRefresh, pool, call, lazy, cpFails, dialerRest>>

\* ------------------------------------------------------ LazyRefreshCache
\* lazy.go:72-76: the cached record is still good
LazyFresh(l) == ~l.needsRefresh /\ now < l.cached - RefreshBuffer

\* LazyRefreshCache.ConnectionInfo, lazy.go:69-83: under c.mu, the cached
\* record is returned
LazyHit(c, i) ==
    /\ lazy[i].alive
    /\ callers[c].pc = "idle"
    /\ lazy[i].mu = ""
    /\ LazyFresh(lazy[i])
    /\ callers' = [callers EXCEPT ![c] =
          [IdleCaller EXCEPT !.pc = "ret", !.cid = i, !.res = "ok",
                             !.sClosed = lazy[i].shut]]
    /\ UNCHANGED <<now, lazyRefresh, pool, call, inst, lazy, cpFails, dialerVars>>

\* lazy.go:42-60 and 90: the constructor drops the refresh timeout it is
\* given, and the control-plane call runs under the caller's context as it
\* is: it has a deadline only if the caller's context has one
LazyDeadline(hasDeadline) == hasDeadline

\* lazy.go:69-90: under c.mu, the refresh begins: c.r.connectionInfo(ctx, uri)
LazyRefreshStart(c, i) ==
    /\ lazy[i].alive
    /\ callers[c].pc = "idle"
    /\ lazy[i].mu = ""
    /\ ~LazyFresh(lazy[i])
    /\ \E hasDeadline \in BOOLEAN :
          lazy' = [lazy EXCEPT ![i].mu = c,
                               ![i].bounded = LazyDeadline(hasDeadline)]
    /\ callers' = [callers EXCEPT ![c] =
          [IdleCaller EXCEPT !.pc = "refreshing", !.cid = i,
                             !.sClosed = lazy[i].shut]]
    /\ UNCHANGED <<now, lazyRefresh, pool, call, inst, cpFails, dialerVars>>

\* the answers of c.r.connectionInfo(ctx, uri), lazy.go:90: a record, a
\* failure of the control plane, or the caller's own context ending it
connectionInfo(mayFail) ==
    {[err |-> FALSE, res |-> "ok", expiry |-> now + CertLifetime],
     [err |-> TRUE, res |-> "ctx", expiry |-> NoExpiry]}
    \cup (IF mayFail THEN {[err |-> TRUE, res |-> "err", expiry |-> NoExpiry]}
          ELSE {})

\* a refresh that clears needsRefresh before it looks at the error
LazyStoreClearsFlag(l, r) ==
    IF r.err THEN [l EXCEPT !.needsRefresh = FALSE, !.mu = "", !.bounded = FALSE]
    ELSE [l EXCEPT !.cached = r.expiry, !.needsRefresh = FALSE, !.mu = "",
                   !.bounded = FALSE]

\* lazy.go:91-123, as a function of the cache: the refresh returned r
LazyStore(l, r) ==
    IF r.err THEN [l EXCEPT !.mu = "", !.bounded = FALSE]
    ELSE [l EXCEPT !.cached = r.expiry, !.needsRefresh = FALSE, !.mu = "",
                   !.bounded = FALSE]

\* lazy.go:90-124: the refresh returns, the cache is updated, c.mu released
LazyRefreshFinish(c) ==
    \E r \in connectionInfo(cpFails < MaxFails) :
        LET i == callers[c].cid IN
        /\ callers[c].pc = "refreshing"
        /\ lazy[i].mu = c
        /\ lazy' = [lazy EXCEPT ![i] = LazyStore(lazy[i], r)]
        /\ cpFails' = IF r.res = "err" THEN cpFails + 1 ELSE cpFails
        /\ callers' = [callers EXCEPT ![c].pc = "ret", ![c].res = r.res]
        /\ UNCHANGED <<now, lazyRefresh, pool, call, inst, dialerVars>>

\* LazyRefreshCache.ForceRefresh, lazy.go:128-132, as a function of the cache
DoLazyForceRefresh(l) == [l EXCEPT !.needsRefresh = TRUE]

LazyForceRefresh(i) ==
    /\ lazy[i].alive
    /\ lazy[i].mu = ""
    /\ lazy' = [lazy EXCEPT ![i] = DoLazyForceRefresh(lazy[i])]
    /\ UNCHANGED <<now, lazyRefresh, pool, call, inst, cpFails, callers, dialerVars>>

\* LazyRefreshCache.Close, lazy.go:136-138: a no-op.  shut only remembers
\* that Close was called.
DoLazyClose(l) == [l EXCEPT !.shut = TRUE]

LazyClose(i) ==
    /\ lazy[i].alive
    /\ lazy' = [lazy EXCEPT ![i] = DoLazyClose(lazy[i])]
    /\ UNCHANGED <<now, lazyRefresh, pool, call, inst, cpFails, callers, dialerVars>>

\* ----------------------------------------------------------------- Dialer
\* the URIs Dial is called with: an instance and a malformed name
Uris == {"projects/p/locations/r/clusters/c/instances/i"}
BadUri == "bad-instance-name"
\* the connectionInfoCache of the zero monitoredCache
NoCache == 0

\* alloydb.ParseInstURI, as Dial uses it (dialer.go:235-238): it fails or not
ParseOk(u) == u \in Uris

\* monitoredCache, dialer.go:88-91: the counter and the cache it wraps.  The
\* map holds the struct itself, so every reader of the map gets a copy.
NoEntry == [openConns |-> 0, cid |-> NoCache]

\* atomic.AddUint64 on a counter of CounterBits bits, and the int64
\* conversion of the value handed to RecordOpenConnections
CounterMod == 2 ^ CounterBits
AddUint(n, k) == (n + k) % CounterMod
AsInt(n) == IF n >= CounterMod \div 2 THEN n - CounterMod ELSE n

\* a goroutine in Dial.  pc: "idle", "lookup" (before the read-locked lookup),
\* "insert" (before the write-locked recheck), "info" (before
\* cache.ConnectionInfo), "wait" (in refreshOperation.Wait), "refreshing" (in
\* the lazy cache's control-plane call), "got" (ConnectionInfo returned a
\* record), "remove" (before removeCached), "connect", "done" (returned).
\* cid, oc: the local variable cache, a copy of the map's monitoredCache.
\* exp: ci.Expiration.  second: the ConnectionInfo call after ForceRefresh.
\* res: what Dial returns; named: the IP type its ConfigError names; step:
\* the step of dialer.go:289-341 that failed.
\* history: parsed (ParseInstURI was called), afterClose (Dialer.Close had
\* returned when Dial was called), stale (the first record had expired when
\* Dial looked at it), again (ForceRefresh and a second ConnectionInfo call
\* were made), kind (the IP type asked for, when the record has no address
\* of it), tcp (the dial function was called), fr (ForceRefresh was called
\* after the dial function), sock (the socket the dial function returned:
\* "none", "open", "closed", or "returned" to the caller)
\* lk: how this goroutine holds d.lock: "" (not), "R" (RLock) or "W" (Lock)
IdleDial ==
    [pc |-> "idle", uri |-> BadUri, cid |-> NoCache, oc |-> 0, snap |-> NoOp,
     exp |-> NoExpiry, second |-> FALSE, res |-> "none", named |-> "none",
     step |-> "none", parsed |-> FALSE, afterClose |-> FALSE,
     stale |-> FALSE, again |-> FALSE, kind |-> "none", tcp |-> FALSE,
     fr |-> FALSE, sock |-> "none", lk |-> ""]

\* the instrumentedConn a Dial returned: st "none" | "open" | "closed" (Close
\* returned nil) | "failed" (Close returned the error of the stream's Close);
\* oc: the openConns of the monitoredCache its closures captured;
\* inc / dec: the goroutines of dialer.go:343-347 and 526 that have not run
NoConn == [st |-> "none", uri |-> BadUri, oc |-> 0, inc |-> FALSE, dec |-> FALSE]

\* Dial returns res: its local variables are gone, its history stays
Returns(r, res) ==
    [IdleDial EXCEPT !.pc = "done", !.res = res, !.named = r.named,
                     !.step = r.step, !.parsed = r.parsed,
                     !.afterClose = r.afterClose, !.stale = r.stale,
                     !.again = r.again, !.kind = r.kind, !.tcp = r.tcp,
                     !.fr = r.fr, !.sock = r.sock, !.lk = r.lk]

\* a Dial that does not look at d.closed
NeverClosed(cl) == FALSE

\* dialer.go:216-220: select on <-d.closed
IsClosed(cl) == cl

\* Dialer.Dial, dialer.go:215-238: the closed check, then the options and
\* ParseInstURI
DialStart(d, u) ==
    /\ dials[d].pc = "idle"
    /\ conns[d].st = "none"
    /\ LET me == [IdleDial EXCEPT !.afterClose = (closer = "returned")]
       IN  dials' = [dials EXCEPT ![d] =
             IF IsClosed(closed)
             THEN Returns(me, "closed")
             ELSE IF ~ParseOk(u)
             THEN Returns([me EXCEPT !.parsed = TRUE], "parseErr")
             ELSE [me EXCEPT !.pc = "lookup", !.uri = u, !.parsed = TRUE]]
    /\ UNCHANGED <<now, lazyRefresh, pool, call, inst, lazy, cpFails, callers, dialerRest>>

\* a goroutine that keeps d.lock when the function that took it returns
UnlockForgotten(lk) == lk

\* d.lock.RUnlock() and the deferred d.lock.Unlock(), dialer.go:555, 558, 367
Unlock(lk) == ""

\* Dialer.connectionInfoCache, dialer.go:553-555: the lookup under RLock
connectionInfoCacheRead(d) ==
    /\ dials[d].pc = "lookup"
    /\ LET c == cache[dials[d].uri]
       IN  dials' = [dials EXCEPT ![d] =
             IF c.cid # NoCache
             THEN [@ EXCEPT !.pc = "info", !.cid = c.cid, !.oc = c.openConns,
                            !.lk = Unlock(@)]
             ELSE [@ EXCEPT !.pc = "insert", !.lk = Unlock(@)]]
    /\ UNCHANGED <<now, lazyRefresh, pool, call, inst, lazy, cpFails, callers, dialerRest>>

\* Dialer.connectionInfoCache, dialer.go:556-586: under Lock, the recheck and
\* the construction of the cache.  At most Cardinality(pool) caches of the
\* Dialer are reachable at a time.
\* an insertion that does not look at the map again under the write lock
NoRecheck(c) == FALSE

\* dialer.go:560-561: c, ok = d.cache[uri] under Lock
Recheck(c) == c.cid # NoCache

connectionInfoCacheInsert(d) ==
    LET u == dials[d].uri
        c == cache[u]
        free == {i \in pool : ~inst[i].alive /\ ~lazy[i].alive}
        id == Min(free)
    IN  /\ dials[d].pc = "insert"
        /\ IF Recheck(c)
           THEN /\ dials' = [dials EXCEPT ![d] =
                      [@ EXCEPT !.pc = "info", !.cid = c.cid, !.oc = c.openConns,
                                !.lk = Unlock(@)]]
                /\ UNCHANGED <<inst, lazy, cache>>
           ELSE /\ free # {}
                /\ inst' = IF lazyRefresh THEN inst
                           ELSE [inst EXCEPT ![id] =
                                    [NewInstance EXCEPT !.owned = TRUE]]
                /\ lazy' = IF lazyRefresh
                           THEN [lazy EXCEPT ![id] = NewLazyRefreshCache]
                           ELSE lazy
                /\ cache' = [cache EXCEPT ![u] = [openConns |-> 0, cid |-> id]]
                /\ dials' = [dials EXCEPT ![d] =
                      [@ EXCEPT !.pc = "info", !.cid = id, !.oc = 0,
                                !.lk = Unlock(@)]]
        /\ UNCHANGED <<now, lazyRefresh, pool, call, cpFails, callers, closed, closer, closeCalls,
                       conns, recorded>>

\* a Dial step that leaves the Dialer's cache i as c (refresh-ahead) or l
\* (lazy) and the dials as ds
StoreCache(i, c, l, ds) ==
    IF lazyRefresh
    THEN /\ lazy' = [lazy EXCEPT ![i] =
                IF Reachable(i, cache, ds) THEN l ELSE NoLazy]
         /\ dials' = ds
         /\ UNCHANGED <<inst, callers>>
    ELSE /\ Commit(i, c, callers, ds)
         /\ UNCHANGED lazy

\* cache.ConnectionInfo(ctx), dialer.go:247 and 265.  Refresh-ahead
\* (instance.go:213-215): res := i.cur.  Lazy (lazy.go:69-90): under c.mu the
\* cached record is returned or the refresh begins.
DialConnectionInfo(d) ==
    LET i == dials[d].cid IN
    /\ dials[d].pc = "info"
    /\ IF ~lazyRefresh
       THEN /\ Commit(i, inst[i], callers,
                      [dials EXCEPT ![d].pc = "wait", ![d].snap = inst[i].cur])
            /\ UNCHANGED lazy
       ELSE /\ lazy[i].mu = ""
            /\ IF LazyFresh(lazy[i])
               THEN /\ dials' = [dials EXCEPT ![d].pc = "got",
                                              ![d].exp = lazy[i].cached]
                    /\ UNCHANGED lazy
               ELSE /\ dials' = [dials EXCEPT ![d].pc = "refreshing"]
                    /\ \E hasDeadline \in BOOLEAN :
                          lazy' = [lazy EXCEPT ![i].mu = d,
                                     ![i].bounded = LazyDeadline(hasDeadline)]
            /\ UNCHANGED <<inst, callers>>
    /\ UNCHANGED <<now, lazyRefresh, pool, call, cpFails, dialerRest>>

\* refreshOperation.Wait, instance.go:100-103, and dialer.go:248-252: the
\* operation is ready; Dial keeps the record or goes on to removeCached
DialWaitReady(d) ==
    LET i == dials[d].cid
        o == inst[i].ops[dials[d].snap]
    IN  /\ dials[d].pc = "wait"
        /\ IsReady(o)
        /\ Commit(i, inst[i], callers,
                  [dials EXCEPT ![d] =
                      IF o.err
                      THEN [@ EXCEPT !.pc = "remove", !.res = "refreshErr",
                                     !.snap = NoOp]
                      ELSE [@ EXCEPT !.pc = "got", !.exp = o.expiry,
                                     !.snap = NoOp]])
        /\ UNCHANGED <<now, lazyRefresh, pool, call, lazy, cpFails, dialerRest>>

\* refreshOperation.Wait, instance.go:104-105: the context of this Dial is
\* cancelled while it waits
DialCtxDone(d) ==
    /\ dials[d].pc = "wait"
    /\ Commit(dials[d].cid, inst[dials[d].cid], callers,
              [dials EXCEPT ![d] =
                  [@ EXCEPT !.pc = "remove", !.res = "ctx", !.snap = NoOp]])
    /\ UNCHANGED <<now, lazyRefresh, pool, call, lazy, cpFails, dialerRest>>

\* lazy.go:90-124 and dialer.go:248-252: the lazy cache's refresh returns
DialLazyFinish(d) ==
    \E r \in connectionInfo(cpFails < MaxFails) :
        LET i == dials[d].cid IN
        /\ dials[d].pc = "refreshing"
        /\ lazy[i].mu = d
        /\ lazy' = [lazy EXCEPT ![i] = LazyStore(lazy[i], r)]
        /\ cpFails' = IF r.res = "err" THEN cpFails + 1 ELSE cpFails
        /\ dials' = [dials EXCEPT ![d] =
              IF r.err
              THEN [@ EXCEPT !.pc = "remove",
                             !.res = IF r.res = "ctx" THEN "ctx" ELSE "refreshErr"]
              ELSE [@ EXCEPT !.pc = "got", !.exp = r.expiry]]
        /\ UNCHANGED <<now, lazyRefresh, pool, call, inst, callers, dialerRest>>

\* a Dial that takes every certificate for valid
neverInvalid(exp) == FALSE

\* invalidClientCert, dialer.go:372-386
invalidClientCert(exp) == now > exp

\* dialer.go:261-271: an expired certificate makes Dial call ForceRefresh and
\* ask once more; otherwise it goes on to connect
DialCheckCert(d) ==
    LET i == dials[d].cid
        me == [dials[d] EXCEPT
                 !.stale = IF dials[d].second THEN @ ELSE now > dials[d].exp]
    IN
    /\ dials[d].pc = "got"
    /\ IF ~dials[d].second /\ invalidClientCert(dials[d].exp)
       THEN IF lazyRefresh
            THEN /\ lazy[i].mu = ""
                 /\ lazy' = [lazy EXCEPT ![i] = DoLazyForceRefresh(lazy[i])]
                 /\ dials' = [dials EXCEPT ![d] =
                       [me EXCEPT !.pc = "info", !.second = TRUE,
                                  !.again = TRUE]]
                 /\ UNCHANGED <<inst, callers>>
            ELSE /\ Commit(i, DoForceRefresh(inst[i], Refs(callers, dials, i)),
                           callers,
                           [dials EXCEPT ![d] =
                               [me EXCEPT !.pc = "info", !.second = TRUE,
                                          !.again = TRUE]])
                 /\ UNCHANGED lazy
       ELSE /\ dials' = [dials EXCEPT ![d] =
                  [me EXCEPT !.pc = "connect", !.exp = NoExpiry,
                             !.second = FALSE]]
            /\ UNCHANGED <<inst, lazy, callers>>
    /\ UNCHANGED <<now, lazyRefresh, pool, call, cpFails, dialerRest>>

\* Dialer.removeCached, dialer.go:358-370: under Lock, c.Close() and
\* delete(d.cache, i); then Dial returns the error
removeCached(d) ==
    LET i == dials[d].cid
        mp == [cache EXCEPT ![dials[d].uri] = NoEntry]
        ds == [dials EXCEPT ![d] =
                  Returns([@ EXCEPT !.lk = Unlock(@)], @.res)]
    IN  /\ dials[d].pc = "remove"
        /\ cache' = mp
        /\ dials' = ds
        /\ inst' = IF lazyRefresh THEN inst
                   ELSE [inst EXCEPT ![i] =
                           IF Reachable(i, mp, ds) THEN DoClose(@) ELSE NoInstance]
        /\ lazy' = IF lazyRefresh
                   THEN [lazy EXCEPT ![i] =
                           IF Reachable(i, mp, ds) THEN DoLazyClose(@) ELSE NoLazy]
                   ELSE lazy
        /\ UNCHANGED <<now, lazyRefresh, pool, call, cpFails, callers, closed, closer, closeCalls,
                       conns, recorded>>

\* alloydb.PrivateIP, PublicIP and PSC: the IP types of WithPrivateIP (the
\* default), WithPublicIP and WithPSC
IpTypes == {"PRIVATE", "PUBLIC", "PSC"}
\* ci.IPAddrs: the IP types the control plane gave addresses for
AddrSets == {{"PRIVATE"}, {"PSC"}, {"PRIVATE", "PSC"}}

\* a Dial that never misses an address
HasAddrAlways(addrs, kind) == TRUE

\* dialer.go:270-271: addr, ok := ci.IPAddrs[cfg.ipType]
HasAddr(addrs, kind) == kind \in addrs

\* the steps of dialer.go:289-341 that can fail: the dial function, the
\* keep-alive settings of a *net.TCPConn, the lookup of the server name for
\* PSC, the TLS handshake, the metadata exchange
FailSteps == {"dial", "keepAlive", "serverName", "handshake", "mdx"}

\* dialer.go:308-316: the server name of a PSC connection is the private
\* address, and the lookup fails when the record has none
CanFail(step, addrs, kind) ==
    step = "serverName" <=> (kind = "PSC" /\ ~HasAddr(addrs, "PRIVATE"))

\* a Dial that calls ForceRefresh only when the dial function fails
ForceRefreshesOnDialOnly(step) == step = "dial"

\* dialer.go:293 and 330: cache.ForceRefresh() after a failed dial function
\* and after a failed handshake, and nowhere else
ForceRefreshes(step) == step \in {"dial", "handshake"}

\* dialer.go:331 and 339: tlsConn.Close() after a failed handshake and a
\* failed metadata exchange; the other failures return with conn as it is
SockAfter(step) ==
    IF step = "dial" THEN "none"
    ELSE IF step \in {"handshake", "mdx"} THEN "closed" ELSE "open"

\* dialer.go:294-340: the error returned: a DialError, or the error of
\* metadataExchange as it is
ErrorOf(step) == IF step = "mdx" THEN "mdxErr" ELSE "dialErr"

\* what a Dial can ask of what record, as far as dialer.go:270-316 looks at
\* it.  has: the record has an address of the IP type asked for; kind: that
\* type when the record has none of it, asked: that type when the lookup
\* said so; noName: the lookup of the server name fails
Attempts ==
    {[has |-> HasAddr(a, k),
      kind |-> IF k \in a THEN "none" ELSE k,
      asked |-> IF HasAddr(a, k) THEN "none" ELSE k,
      noName |-> HasAddr(a, k) /\ CanFail("serverName", a, k)]
        : k \in IpTypes, a \in AddrSets}

\* dialer.go:270-354: the address lookup, then the dial function, keep-alive,
\* the server name, the handshake and the metadata exchange, one of which may
\* fail, then the instrumented connection
DialConnect(d) ==
    \E at \in Attempts, step \in FailSteps \cup {"none"} :
        LET i == dials[d].cid
            refs == Refs(callers, dials, i)
            me == [dials[d] EXCEPT !.kind = at.kind]
        IN
        /\ dials[d].pc = "connect"
        /\ IF ~at.has
           THEN /\ step = "none"
                /\ dials' = [dials EXCEPT ![d] =
                      [me EXCEPT !.pc = "remove", !.res = "configErr",
                                 !.named = at.asked]]
                /\ UNCHANGED <<inst, lazy, callers, conns>>
           ELSE IF step # "none"
           THEN /\ step = "serverName" => at.noName
                /\ (lazyRefresh /\ ForceRefreshes(step)) => lazy[i].mu = ""
                /\ StoreCache(i,
                      IF ForceRefreshes(step)
                      THEN DoForceRefresh(inst[i], refs) ELSE inst[i],
                      IF ForceRefreshes(step)
                      THEN DoLazyForceRefresh(lazy[i]) ELSE lazy[i],
                      [dials EXCEPT ![d] =
                          Returns([me EXCEPT !.step = step, !.tcp = TRUE,
                                             !.fr = ForceRefreshes(step),
                                             !.sock = SockAfter(step)],
                                  ErrorOf(step))])
                /\ UNCHANGED conns
           ELSE /\ ~at.noName
                /\ StoreCache(i, inst[i], lazy[i],
                      [dials EXCEPT ![d] =
                          Returns([me EXCEPT !.tcp = TRUE, !.sock = "returned"],
                                  "ok")])
                /\ conns' = [conns EXCEPT ![d] =
                      [st |-> "open", uri |-> dials[d].uri,
                       oc |-> dials[d].oc, inc |-> TRUE, dec |-> FALSE]]
        /\ UNCHANGED <<now, lazyRefresh, pool, call, cpFails, closed, closer,
                       closeCalls, cache, recorded>>

\* the caller has the result of Dial
DialReturn(d) ==
    /\ dials[d].pc = "done"
    /\ dials' = [dials EXCEPT ![d] = IdleDial]
    /\ UNCHANGED <<now, lazyRefresh, pool, call, inst, lazy, cpFails, callers, dialerRest>>

\* a stream that Close was called on and whose closures have run is forgotten
Settle(c) ==
    IF c.st \in {"closed", "failed"} /\ ~c.inc /\ ~c.dec THEN NoConn ELSE c

\* dialer.go:343-347: the goroutine adds one to cache.openConns and records
\* the value
RecordOpen(d) ==
    LET n == AddUint(conns[d].oc, 1) IN
    /\ conns[d].inc
    /\ conns' = [conns EXCEPT ![d] = Settle([@ EXCEPT !.oc = n, !.inc = FALSE])]
    /\ recorded' = [recorded EXCEPT ![conns[d].uri] = AsInt(n)]
    /\ UNCHANGED <<now, lazyRefresh, pool, call, inst, lazy, cpFails, callers, closed,
                   closer, closeCalls, cache, dials>>

\* an instrumentedConn.Close that reports every close, failed or not
closeReportsAlways(err) == TRUE

\* instrumentedConn.Close, dialer.go:523-526: closeFunc is started only when
\* the underlying Close returned no error
closeReports(err) == ~err

\* instrumentedConn.Close, dialer.go:521-528, on a stream no Close was called
\* on: the Close of the *tls.Conn under it (dialer.go:326) returns nil or an
\* error.  Every later Close of that tls.Conn returns an error, so it starts
\* nothing and changes nothing.
ConnClose(d) ==
    \E err \in BOOLEAN :
        /\ conns[d].st = "open"
        /\ conns' = [conns EXCEPT ![d] =
              Settle([@ EXCEPT !.st = IF err THEN "failed" ELSE "closed",
                               !.dec = closeReports(err)])]
        /\ UNCHANGED <<now, lazyRefresh, pool, call, inst, lazy, cpFails, callers, closed,
                       closer, closeCalls, cache, dials, recorded>>

\* dialer.go:349-352: closeFunc adds ^uint64(0) to cache.openConns and records
\* the value
RecordClose(d) ==
    LET n == AddUint(conns[d].oc, CounterMod - 1) IN
    /\ conns[d].dec
    /\ conns' = [conns EXCEPT ![d] = Settle([@ EXCEPT !.oc = n, !.dec = FALSE])]
    /\ recorded' = [recorded EXCEPT ![conns[d].uri] = AsInt(n)]
    /\ UNCHANGED <<now, lazyRefresh, pool, call, inst, lazy, cpFails, callers, closed,
                   closer, closeCalls, cache, dials>>

\* a Close that does not look at d.closed
NeverAlreadyClosed(cl) == FALSE

\* dialer.go:534-539: select on <-d.closed
AlreadyClosed(cl) == cl

\* close(d.closed), dialer.go:540: closing a closed channel panics
CloseChan(cl, then) == IF cl THEN "panicked" ELSE then

\* Dialer.Close, dialer.go:533-540, called by a goroutine that calls Close
\* again and again, on a Dialer whose d.closed is open as far as the select
\* can tell: close(d.closed)
DialerCloseStart ==
    /\ closer \in {"idle", "returned"}
    /\ closeCalls < MaxCloses
    /\ ~AlreadyClosed(closed)
    /\ closed' = TRUE
    /\ closer' = CloseChan(closed, "locking")
    /\ UNCHANGED <<now, lazyRefresh, pool, call, inst, lazy, cpFails, callers,
                   closeCalls, cache, dials, conns, recorded>>

\* Dialer.Close, dialer.go:542-547: under Lock every cache of the map is
\* closed, and Close returns
DialerCloseCaches ==
    LET ids == {cache[u].cid : u \in Uris} \ {NoCache} IN
    /\ closer = "locking"
    /\ closer' = "returned"
    /\ closeCalls' = closeCalls + 1
    /\ inst' = [i \in CacheIds |->
          IF i \in ids /\ ~lazyRefresh THEN DoClose(inst[i]) ELSE inst[i]]
    /\ lazy' = [i \in CacheIds |->
          IF i \in ids /\ lazyRefresh THEN DoLazyClose(lazy[i]) ELSE lazy[i]]
    /\ UNCHANGED <<now, lazyRefresh, pool, call, cpFails, callers, closed, cache,
                   dials, conns, recorded>>

\* Dialer.Close, dialer.go:534-538, called once more after a call returned:
\* d.closed is closed and Close returns nil
DialerCloseAgain ==
    /\ closer = "returned"
    /\ closeCalls < MaxCloses
    /\ AlreadyClosed(closed)
    /\ closeCalls' = closeCalls + 1
    /\ UNCHANGED <<now, lazyRefresh, pool, call, inst, lazy, cpFails, callers, closed,
                   closer, cache, dials, conns, recorded>>

\* ---------------------------------------- the cache-level specification
\* one cache, built by NewInstance or NewLazyRefreshCache, used by Callers
Init ==
    /\ args = <<>> /\ ret = <<>> /\ tasks = <<>>
    /\ now = 0
    /\ lazyRefresh \in BOOLEAN
    /\ pool = {TheCache}
    /\ inst = [i \in CacheIds |->
                 IF i = TheCache /\ ~lazyRefresh THEN NewInstance ELSE NoInstance]
    /\ lazy = [i \in CacheIds |->
                 IF i = TheCache /\ lazyRefresh THEN NewLazyRefreshCache ELSE NoLazy]
    /\ cpFails = 0
    /\ callers = [c \in Callers |-> IdleCaller]
    /\ closed = FALSE
    /\ closer = "idle"
    /\ closeCalls = 0
    /\ cache = [u \in Uris |-> NoEntry]
    /\ dials = [d \in Dials |-> IdleDial]
    /\ conns = [d \in Dials |-> NoConn]
    /\ recorded = [u \in Uris |-> 0]

Next ==
    \/ Tick
    \/ FireTimer(TheCache)
    \/ FinishRefresh(TheCache)
    \/ CompleteRefresh(TheCache)
    \/ ForceRefresh(TheCache)
    \/ Close(TheCache)
    \/ \E c \in Readers : result(c, TheCache)
    \/ \E c \in Callers : WaitReady(c)
    \/ \E c \in Callers : WaitCtxDone(c)
    \/ \E c \in Callers : Return(c)
    \/ \E c \in Callers : LazyHit(c, TheCache)
    \/ \E c \in Callers : LazyRefreshStart(c, TheCache)
    \/ \E c \in Callers : LazyRefreshFinish(c)
    \/ LazyForceRefresh(TheCache)
    \/ LazyClose(TheCache)

Spec == Init /\ [][Next]_vars

\* the refresh cycle of the refresh-ahead cache alone, with the scheduling
\* the Go runtime gives: a timer that is due fires, a running performRefresh
\* returns (it runs under a deadline), and the function gets resultGuard.
\* The control plane fails at most MaxFails times.
LiveInit == Init /\ ~lazyRefresh

LiveNext ==
    \/ Tick
    \/ FireTimer(TheCache)
    \/ FinishRefresh(TheCache)
    \/ CompleteRefresh(TheCache)
    \/ ForceRefresh(TheCache)
    \/ Close(TheCache)

LiveSpec ==
    /\ LiveInit
    /\ [][LiveNext]_vars
    /\ WF_vars(FireTimer(TheCache))
    /\ WF_vars(FinishRefresh(TheCache))
    /\ WF_vars(CompleteRefresh(TheCache))

\* ------------------------------------------------- the Dialer specification
\* a Dialer from NewDialer: no cache yet, not closed
NewDialer(lz, ids) ==
    /\ args = <<>> /\ ret = <<>>
    /\ now = 0
    /\ lazyRefresh = lz
    /\ pool = ids
    /\ inst = [i \in CacheIds |-> NoInstance]
    /\ lazy = [i \in CacheIds |-> NoLazy]
    /\ cpFails = 0
    /\ callers = [c \in Callers |-> IdleCaller]
    /\ closed = FALSE
    /\ closer = "idle"
    /\ closeCalls = 0
    /\ cache = [u \in Uris |-> NoEntry]
    /\ dials = [d \in Dials |-> IdleDial]
    /\ conns = [d \in Dials |-> NoConn]
    /\ recorded = [u \in Uris |-> 0]

\* a Dialer of either variant that reaches one cache at a time
DialerInit == tasks = <<>> /\ \E lz \in BOOLEAN : NewDialer(lz, {TheCache})

DialerNext ==
    \/ \E d \in Dials, u \in Uris \cup {BadUri} : DialStart(d, u)
    \/ \E d \in Dials : connectionInfoCacheRead(d)
    \/ \E d \in Dials : connectionInfoCacheInsert(d)
    \/ \E d \in Dials : DialConnectionInfo(d)
    \/ \E d \in Dials : DialWaitReady(d)
    \/ \E d \in Dials : DialCtxDone(d)
    \/ \E d \in Dials : DialLazyFinish(d)
    \/ \E d \in Dials : DialCheckCert(d)
    \/ \E d \in Dials : removeCached(d)
    \/ \E d \in Dials : DialConnect(d)
    \/ \E d \in Dials : DialReturn(d)
    \/ \E d \in Dials : RecordOpen(d)
    \/ \E d \in Dials : ConnClose(d)
    \/ \E d \in Dials : RecordClose(d)
    \/ DialerCloseStart
    \/ DialerCloseCaches
    \/ \E i \in CacheIds : FireTimer(i)
    \/ \E i \in CacheIds : FinishRefresh(i)
    \/ \E i \in CacheIds : CompleteRefresh(i)

DialerSpec == DialerInit /\ [][DialerNext]_vars

\* one goroutine calling Dial again and again and one calling Close again
\* and again, while the clock runs
SoloDials == {DialSeq[1]}

SoloNext ==
    \/ Tick
    \/ \E d \in SoloDials, u \in Uris \cup {BadUri} : DialStart(d, u)
    \/ \E d \in SoloDials : connectionInfoCacheRead(d)
    \/ \E d \in SoloDials : connectionInfoCacheInsert(d)
    \/ \E d \in SoloDials : DialConnectionInfo(d)
    \/ \E d \in SoloDials : DialWaitReady(d)
    \/ \E d \in SoloDials : DialCtxDone(d)
    \/ \E d \in SoloDials : DialLazyFinish(d)
    \/ \E d \in SoloDials : DialCheckCert(d)
    \/ \E d \in SoloDials : removeCached(d)
    \/ \E d \in SoloDials : DialConnect(d)
    \/ \E d \in SoloDials : DialReturn(d)
    \/ \E d \in SoloDials : RecordOpen(d)
    \/ \E d \in SoloDials : ConnClose(d)
    \/ \E d \in SoloDials : RecordClose(d)
    \/ DialerCloseStart
    \/ DialerCloseCaches
    \/ DialerCloseAgain
    \/ \E i \in CacheIds : FireTimer(i)
    \/ \E i \in CacheIds : FinishRefresh(i)
    \/ \E i \in CacheIds : CompleteRefresh(i)

SoloSpec == DialerInit /\ [][SoloNext]_vars

\* the streams of a Dialer with lazy caches, with the scheduling the Go
\* runtime gives the goroutines that update the counter: once started they
\* run (dialer.go:344 and 526).  Nobody has to call Dial or Close.
ConnInit == tasks = <<>> /\ NewDialer(TRUE, CacheIds)

ConnNext ==
    \/ \E d \in Dials, u \in Uris : DialStart(d, u)
    \/ \E d \in Dials : connectionInfoCacheRead(d)
    \/ \E d \in Dials : connectionInfoCacheInsert(d)
    \/ \E d \in Dials : DialConnectionInfo(d)
    \/ \E d \in Dials : DialLazyFinish(d)
    \/ \E d \in Dials : DialCheckCert(d)
    \/ \E d \in Dials : removeCached(d)
    \/ \E d \in Dials : DialConnect(d)
    \/ \E d \in Dials : DialReturn(d)
    \/ \E d \in Dials : RecordOpen(d)
    \/ \E d \in Dials : ConnClose(d)
    \/ \E d \in Dials : RecordClose(d)

ConnSpec ==
    /\ ConnInit
    /\ [][ConnNext]_vars
    /\ \A d \in Dials : WF_vars(RecordOpen(d))
    /\ \A d \in Dials : WF_vars(RecordClose(d))

\* ================================================================ claims
RA == inst[TheCache]
LZ == lazy[TheCache]
Returned(c) == callers[c].pc = "ret"
SnapOp(c) == inst[callers[c].cid].ops[callers[c].snap]

C2_CancelledDialLeavesCache ==
    [][\A d \in Dials :
          (dials[d].pc = "remove" /\ dials[d].res = "ctx"
              /\ dials'[d].pc = "done")
          => /\ cache' = cache
             /\ \A i \in CacheIds : inst'[i].cancelled = inst[i].cancelled
      ]_vars

\* the asynchronous counter updates that have not run
Pending == \E d \in Dials : conns[d].inc \/ conns[d].dec
\* the streams to u that Dial returned and that are not closed
OpenTo(u) ==
    Cardinality({d \in Dials : conns[d].st = "open" /\ conns[d].uri = u})

\* C10: once the pending counter updates have run, the open-connections
\* value recorded for an instance is the number of its open streams.
C10_OpenConnsCounted ==
    ~Pending => \A u \in Uris : recorded[u] = OpenTo(u)

C4_AtMostOneRefreshInFlight ==
    \A i \in CacheIds :
        /\ Cardinality({o \in OpIds : inst[i].ops[o].st = "running"}) <= 1
        /\ Cardinality({c \in Callers :
               callers[c].pc = "refreshing" /\ callers[c].cid = i}) <= 1

\* a retry is in flight while a reader waits on an operation and
\* ForceRefresh has pinned cur onto next
C4_Witness ==
    /\ RA.alive /\ RA.owed /\ RA.cur = RA.next
    /\ RA.ops[RA.next].st = "running"
    /\ \E c \in Callers : callers[c].pc = "wait"

Armed(c) == {o \in OpIds : c.ops[o].st = "scheduled"}

\* C6: once a refresh-ahead cache is closed no refresh operation is scheduled
\* any more: no step of a closed cache arms a timer where none was armed.
C6_NothingScheduledAfterClose ==
    [][RA.cancelled => Cardinality(Armed(RA)') <= Cardinality(Armed(RA))]_vars

Work(c) ==
    Cardinality({o \in OpIds :
        \/ c.ops[o].st = "running"
        \/ c.ops[o].st = "scheduled" /\ c.ops[o].due <= now})

\* C8: a ForceRefresh call adds at most one refresh to those the cache
\* performs now, and none when the refresh an earlier call asked for is still
\* pending (refresh-ahead: the zero-delay timer has not fired; lazy:
\* needsRefresh is still set), so two consecutive calls cause at most one
\* more refresh than one call.
C8_ForceRefreshIdempotent ==
    [][ /\ ForceRefresh(TheCache) =>
            /\ Work(RA') <= Work(RA) + 1
            /\ (Cancel(RA.ops[RA.next]) /\ RA.ops[RA.next].due <= now)
                   => Work(RA') = Work(RA)
        /\ (LazyForceRefresh(TheCache) /\ LZ.needsRefresh) => LZ' = LZ
      ]_vars

\* a record exists and a ForceRefresh has armed a zero-delay refresh that has
\* not fired: the state in which a second ForceRefresh arrives
C8_Witness ==
    /\ ~lazyRefresh /\ RA.cur = RA.next
    /\ RA.ops[RA.next].st = "scheduled" /\ RA.ops[RA.next].due <= now
    /\ RA.lastGood # NoExpiry /\ RA.goodSinceForce = NoExpiry

\* C9: in an unclosed refresh-ahead cache the completion of a failed refresh
\* arms a new refresh with zero delay, and, the control plane answering in
\* the end, a failed refresh is followed by a successful one that becomes
\* cur, unless the cache is closed first.
C9_FailedRefreshIsRetried ==
    /\ [][ (\E o \in OpIds : RA.ops[o].st = "ready" /\ RA.ops[o].err
               /\ CompleteRefresh(TheCache) /\ ~RA.cancelled)
           => /\ RA'.ops[RA'.next].st = "scheduled"
              /\ RA'.ops[RA'.next].due <= now
              /\ Armed(RA) = {} ]_vars
    /\ (RA.owed /\ ~RA.cancelled)
          ~> (RA.cancelled \/ (~RA.owed /\ IsValid(RA.ops[RA.cur])))

\* the control plane failed a refresh and a later one succeeded and is cur
C9_Witness ==
    /\ ~lazyRefresh /\ ~RA.cancelled /\ cpFails > 0
    /\ ~RA.owed /\ IsValid(RA.ops[RA.cur])

\* C11: the closure that takes one from the open-connection counter is started
\* only by a Close of a returned stream whose underlying Close returned no
\* error, never by one that returned an error; once started it runs, takes
\* exactly one from the counter it captured and records the value; and it is
\* not started a second time for that stream.
C11_DecrementedOncePerCleanClose ==
    /\ [][\A d \in Dials :
             (conns'[d].dec /\ ~conns[d].dec)
             => conns[d].st = "open" /\ conns'[d].st = "closed"]_vars
    /\ [](\A d \in Dials : conns[d].st = "failed" => ~conns[d].dec)
    /\ [][\A d \in Dials :
             (conns[d].dec /\ ~conns'[d].dec)
             => /\ conns'[d].st \in {"closed", "none"}
                /\ recorded'[conns[d].uri]
                     = AsInt(AddUint(conns[d].oc, CounterMod - 1))]_vars
    /\ \A d \in Dials : (conns[d].dec ~> ~conns[d].dec)

\* one stream was closed without error and its decrement has not run yet,
\* while the Close of another stream returned an error
C11_Witness ==
    \E d, e \in Dials :
        /\ conns[d].st = "closed" /\ conns[d].dec
        /\ conns[e].st = "failed" /\ ~conns[e].dec

\* C12: the Dialer's map entry of an instance is never overwritten, only
\* removed; a cache is constructed only for an instance that has no entry, and
\* becomes its entry; and every Dial leaves connectionInfoCache with the cache
\* of the entry.
C12_OneCachePerKey ==
    [][/\ \A u \in Uris :
             cache[u].cid # NoCache => cache'[u] \in {cache[u], NoEntry}
       /\ \A i \in CacheIds :
             ((lazy'[i].alive /\ ~lazy[i].alive)
                 \/ (inst'[i].alive /\ ~inst[i].alive))
             => \E u \in Uris : cache[u].cid = NoCache /\ cache'[u].cid = i
       /\ \A d \in Dials :
             (dials[d].pc \in {"lookup", "insert"} /\ dials'[d].pc = "info")
             => /\ dials'[d].cid # NoCache
                /\ dials'[d].cid = cache'[dials[d].uri].cid
      ]_vars

\* a Dial that found no entry under the read lock is about to look again
\* under the write lock, and another Dial has inserted the cache meanwhile
C12_Witness ==
    \E d, e \in Dials :
        /\ dials[d].pc = "insert"
        /\ cache[dials[d].uri].cid # NoCache
        /\ dials[e].cid = cache[dials[d].uri].cid

ClosedCache(ins, lz, i) ==
    IF lazyRefresh THEN lz[i].shut \/ ~lz[i].alive
                   ELSE ins[i].cancelled \/ ~ins[i].alive

\* C14: a Dial whose ConnectionInfo call returned an error closes the cache,
\* deletes the instance's entry and returns that error; and the cache it
\* closed schedules no further refresh.
C14_FailedInfoRemovesCache ==
    [][/\ \A d \in Dials :
             (dials[d].pc = "remove" /\ dials[d].res \in {"refreshErr", "ctx"}
                 /\ dials'[d].pc = "done")
             => /\ cache'[dials[d].uri] = NoEntry
                /\ ClosedCache(inst', lazy', dials[d].cid)
                /\ dials'[d].res = dials[d].res
       /\ \A i \in CacheIds :
             (inst[i].owned /\ inst[i].cancelled /\ closer = "idle")
             => Cardinality(Armed(inst[i])') <= Cardinality(Armed(inst[i]))
      ]_vars

\* C15: a Dial that asks for an IP type the record has no address of goes on
\* to removeCached without calling the dial function and returns a
\* ConfigError that names that type; removeCached closes the cache and
\* deletes the instance's entry.
C15_MissingAddressIsConfigError ==
    /\ [](\A d \in Dials :
            dials[d].kind # "none"
            => /\ dials[d].pc \in {"remove", "done"}
               /\ dials[d].res = "configErr"
               /\ dials[d].named = dials[d].kind
               /\ ~dials[d].tcp /\ dials[d].sock = "none")
    /\ [][\A d \in Dials :
             (dials[d].pc = "remove" /\ dials[d].res = "configErr"
                 /\ dials'[d].pc = "done")
             => /\ cache'[dials[d].uri] = NoEntry
                /\ ClosedCache(inst', lazy', dials[d].cid)
                /\ dials'[d].res = "configErr"
                /\ dials'[d].named = dials[d].named]_vars

\* a Dial with WithPublicIP returned its ConfigError and the map is empty
C15_Witness ==
    /\ \E d \in Dials :
          /\ dials[d].pc = "done" /\ dials[d].res = "configErr"
          /\ dials[d].named = "PUBLIC"
    /\ \A u \in Uris : cache[u] = NoEntry

\* the cache i is as ForceRefresh leaves it: the lazy cache has needsRefresh
\* set, the refresh-ahead cache has cur pinned onto next
Forced(ins, lz, i) ==
    IF lazyRefresh THEN lz[i].needsRefresh ELSE ins[i].cur = ins[i].next

\* C16: a Dial that finds the first record expired calls ForceRefresh and
\* ConnectionInfo once more, before the dial function is called; with the
\* record of the second call it goes on to connect and the map is untouched;
\* when the second call fails the cache is closed, the entry deleted and that
\* error returned.
C16_ExpiredRecordIsRefetched ==
    /\ [](\A d \in Dials : dials[d].stale => dials[d].again)
    /\ [][\A d \in Dials :
             LET i == dials[d].cid IN
             /\ (dials[d].pc = "got" /\ ~dials[d].second
                     /\ now > dials[d].exp /\ dials'[d] # dials[d])
                => /\ dials'[d].pc = "info" /\ dials'[d].again
                   /\ ~dials'[d].tcp
                   /\ Forced(inst', lazy', i)
                   /\ cache' = cache
             /\ (dials[d].pc = "got" /\ dials[d].second
                     /\ dials'[d] # dials[d])
                => dials'[d].pc = "connect" /\ cache' = cache
             /\ (dials[d].pc = "remove" /\ dials[d].again
                     /\ dials[d].res \in {"refreshErr", "ctx"}
                     /\ dials'[d].pc = "done")
                => /\ cache'[dials[d].uri] = NoEntry
                   /\ ClosedCache(inst', lazy', i)
                   /\ dials'[d].res = dials[d].res
                   /\ ~dials'[d].tcp]_vars

\* a Dial found its first record expired, asked again, and goes on to connect
\* with the second record, the entry still in the map
C16_Witness ==
    \E d \in Dials :
        /\ dials[d].pc = "connect" /\ dials[d].stale /\ dials[d].again
        /\ cache[dials[d].uri].cid = dials[d].cid


\* C17 (as amended): a Dial that fails in the dial function or in the TLS
\* handshake calls ForceRefresh on its cache before it returns its DialError;
\* a Dial that fails at keep-alive, at the server name or in the metadata
\* exchange returns without ForceRefresh and leaves the cache as it was.
C17_DialAndHandshakeFailuresForceRefresh ==
    /\ [](\A d \in Dials :
            dials[d].pc = "done"
            => /\ dials[d].step \in {"dial", "handshake"}
                  => dials[d].fr /\ dials[d].res = "dialErr"
               /\ dials[d].step \in {"keepAlive", "serverName", "mdx"}
                  => ~dials[d].fr)
    /\ [][\A d \in Dials :
             LET i == dials[d].cid IN
             (dials[d].pc = "connect" /\ dials'[d].pc = "done")
             => /\ dials'[d].step \in {"dial", "handshake"}
                   => Forced(inst', lazy', i)
                /\ dials'[d].step \in {"keepAlive", "serverName", "mdx"}
                   => inst' = inst /\ lazy' = lazy]_vars

\* C17: every Dial that fails in the dial function, the handshake, the
\* metadata exchange or the keep-alive settings has called ForceRefresh when
\* it returns.
C17_EveryDialErrorForcesRefresh ==
    \A d \in Dials :
        (dials[d].pc = "done"
            /\ dials[d].step \in {"dial", "handshake", "mdx", "keepAlive"})
        => dials[d].fr

\* a Dial returned the DialError of a failed handshake and left the cache in
\* the map forced to refresh
C17_Witness ==
    /\ \E d \in Dials :
          /\ dials[d].pc = "done" /\ dials[d].res = "dialErr"
          /\ dials[d].step = "handshake" /\ dials[d].fr
    /\ \E u \in Uris :
          cache[u].cid # NoCache /\ Forced(inst, lazy, cache[u].cid)


\* C18: when a Dial returns an error after its dial function returned a
\* socket (keep-alive, server name, handshake or metadata exchange failed),
\* that socket is closed.
C18_FailedDialClosesSocket ==
    \A d \in Dials :
        (dials[d].pc = "done" /\ dials[d].res # "ok"
            /\ dials[d].step \in {"keepAlive", "serverName", "handshake", "mdx"})
        => dials[d].sock = "closed"


\* C19: a ConnectionInfo call on a lazy cache begins a refresh exactly when
\* needsRefresh is set or now is not before the expiration less four minutes
\* (the clock counts hours of sixty minutes); otherwise it returns the cached
\* record and leaves the cache alone; a refresh that succeeds replaces the
\* cached record and clears needsRefresh.
C19_LazyRefreshesWithinFourMinutes ==
    [][\A c \in Callers :
          LET due == LZ.needsRefresh \/ ~(60 * now < 60 * LZ.cached - 4) IN
          /\ (lazyRefresh /\ callers[c].pc = "idle")
             => /\ callers'[c].pc = "refreshing" => due
                /\ callers'[c].pc = "ret" => ~due /\ lazy' = lazy
          /\ (lazyRefresh /\ callers[c].pc = "refreshing"
                  /\ callers'[c].pc = "ret" /\ callers'[c].res = "ok")
             => LZ'.cached = now + CertLifetime /\ ~LZ'.needsRefresh
      ]_vars


\* C20: when the refresh of a lazy cache fails, ConnectionInfo returns the
\* error, the cached record and needsRefresh are as they were, and the cache
\* is still due for a refresh: the next call begins one.
C20_FailedLazyRefreshLeavesCache ==
    [][\A c \in Callers :
          (lazyRefresh /\ callers[c].pc = "refreshing"
              /\ callers'[c].pc = "ret")
          => \/ callers'[c].res = "ok"
             \/ /\ callers'[c].res \in {"err", "ctx"}
                /\ LZ'.cached = LZ.cached
                /\ LZ'.needsRefresh = LZ.needsRefresh
                /\ LZ'.mu = ""
                /\ LZ'.needsRefresh \/ ~(now' < LZ'.cached - RefreshBuffer)
      ]_vars

\* a cache that held a record and was told to refresh has had its refresh
\* fail: the caller has the error, the record and the flag are still there
C20_Witness ==
    /\ lazyRefresh
    /\ \E c \in Callers : callers[c].pc = "ret" /\ callers[c].res = "err"
    /\ LZ.needsRefresh /\ LZ.cached # NoExpiry /\ LZ.mu = ""


\* the delay, in minutes, that the schedule of C21 gives a record with d
\* minutes of validity left
PolicyMinutes(d) ==
    IF d > 60 THEN d \div 2
    ELSE IF d = 60 THEN 30
    ELSE IF d > 4 THEN 1 ELSE 0

\* C21: when a successful refresh of an open refresh-ahead cache completes
\* with a record expiring at e, the next refresh is scheduled (e - now)/2
\* ahead when more than an hour is left, 30 minutes ahead at one hour, one
\* minute ahead between four minutes and an hour, and at once below that (the
\* clock counts hours of sixty minutes).
C21_NextRefreshFollowsSchedule ==
    [][\A o \in OpIds :
          (~lazyRefresh /\ RA.alive /\ ~RA.cancelled
              /\ RA.ops[o].st = "ready" /\ ~RA.ops[o].err
              /\ \A p \in OpIds : RA'.ops[p].st # "ready")
          => /\ RA'.ops[RA'.next].st = "scheduled"
             /\ 60 * (RA'.ops[RA'.next].due - now)
                  = PolicyMinutes(60 * (RA.ops[o].expiry - now))
      ]_vars

\* C22: every refresh, of either cache variant, runs under a deadline: while
\* the function of a refresh-ahead operation is in performRefresh, and while
\* a lazy cache's control-plane call is under way, the context of the
\* refresh has a deadline, so that calls that never answer end with a
\* failure.
C22_EveryRefreshHasDeadline ==
    \A i \in CacheIds :
        /\ \A o \in OpIds : inst[i].ops[o].st = "running" => inst[i].ops[o].timed
        /\ lazy[i].mu # "" => lazy[i].bounded

\* ------------------------------------------------------ newDialerConfig
\* the state of a program that has built no Dialer
program == <<now, lazyRefresh, pool, inst, lazy, cpFails, callers, dialerVars>>
Offline ==
    /\ now = 0
    /\ lazyRefresh = FALSE
    /\ pool = {}
    /\ inst = [i \in CacheIds |-> NoInstance]
    /\ lazy = [i \in CacheIds |-> NoLazy]
    /\ cpFails = 0
    /\ callers = [c \in Callers |-> IdleCaller]
    /\ closed = FALSE
    /\ closer = "idle"
    /\ closeCalls = 0
    /\ cache = [u \in Uris |-> NoEntry]
    /\ dials = [d \in Dials |-> IdleDial]
    /\ conns = [d \in Dials |-> NoConn]
    /\ recorded = [u \in Uris |-> 0]

\* an option that carries a value is absent, given with the zero value of
\* its type ("" or nil), or given with a value
Valued == {"absent", "zero", "set"}
\* go.mod:73-75 with the options of go.mod:232-262, 291-296, 358-362,
\* 399-403, 447-451: the fields of dialerConfig the checks look at, each as
\* the comparison the code makes (credentialsFile != "", the others != nil)
ApplyOptions(o) ==
    [disableMetadataExchange |-> o.optOut,
     useIAMAuthN             |-> o.iamAuthN,
     lazyRefresh             |-> o.lazyRefresh,
     credentialsFile         |-> o.credentialsFile = "set",
     credentialsJSON         |-> o.credentialsJSON = "set",
     tokenProvider           |-> o.tokenSource = "set",
     credentials             |-> o.credentials = "set"]

\* go.mod:77-85: badPairs is a map[bool]string: es holds the entries of the
\* map literal in the order written, and an entry overwrites the earlier
\* entries that have its key
badPairs(d) ==
    LET es ==
          << <<d.disableMetadataExchange /\ d.useIAMAuthN, "OptOut/IAMAuthN">>,
             <<d.credentialsFile /\ d.credentialsJSON, "File/JSON">>,
             <<d.credentialsFile /\ d.tokenProvider, "File/TokenSource">>,
             <<d.credentialsJSON /\ d.tokenProvider, "JSON/TokenSource">>,
             <<d.credentials /\ d.credentialsFile, "Credentials/File">>,
             <<d.credentials /\ d.credentialsJSON, "Credentials/JSON">>,
             <<d.credentials /\ d.tokenProvider, "Credentials/TokenSource">> >>
        last(k) == CHOOSE j \in DOMAIN es :
                      /\ es[j][1] = k
                      /\ \A h \in DOMAIN es : es[h][1] = k => h <= j
    IN  [k \in {es[j][1] : j \in DOMAIN es} |-> es[last(k)][2]]

\* newDialerConfig, go.mod:66-181.  detect: the credentials named by the
\* options can be read and parsed (os.ReadFile, credentials.DetectDefault)
newDialerConfig(o, detect) ==
    LET d == ApplyOptions(o)
        m == badPairs(d)
        basis == IF d.credentialsFile THEN "file"
                 ELSE IF d.credentialsJSON THEN "json"
                 ELSE IF d.tokenProvider THEN "tokenSource"
                 ELSE IF d.credentials THEN "credentials"
                 ELSE "default"
    IN  IF \E bad \in DOMAIN m : bad
        THEN [err |-> "incompatible", msg |-> m[TRUE], basis |-> "none"]
        ELSE IF basis \in {"file", "json", "default"} /\ ~detect
        THEN [err |-> "credentials", msg |-> "", basis |-> "none"]
        ELSE [err |-> "none", msg |-> "", basis |-> basis]

\* newDialerConfig is called
OptNext ==
    /\ ret = <<>>
    /\ ret' = newDialerConfig(args.opts, args.detect)
    /\ UNCHANGED <<args, tasks, program>>

\* the options newDialerConfig is called with, each at most once:
\* WithOptOutOfAdvancedConnectionCheck, WithIAMAuthN, WithLazyRefresh,
\* WithCredentialsFile, WithCredentialsJSON, WithTokenSource, WithCredentials
OptInit ==
    /\ Offline
    /\ args \in [opts : [optOut : BOOLEAN, iamAuthN : BOOLEAN,
                         lazyRefresh : BOOLEAN,
                         credentialsFile : Valued, credentialsJSON : Valued,
                         tokenSource : {"absent", "set"},
                         credentials : Valued],
                 detect : BOOLEAN]
    /\ ret = <<>> /\ tasks = <<>>
\* the calls of newDialerConfig, one per behaviour
OptSpec == OptInit /\ [][OptNext]_vars

\* the option set holds both options of a pair that must not be combined
HasIncompatiblePair(o) ==
    \/ o.optOut /\ o.iamAuthN
    \/ Cardinality({f \in {"credentialsFile", "credentialsJSON",
                           "tokenSource", "credentials"} : o[f] # "absent"}) >= 2

\* C23: the construction of a Dialer fails for every option set that holds
\* at least one incompatible pair (opt-out of the connection check with IAM
\* authentication, or two of credentials file, credentials JSON, token
\* source and credentials), whatever else it holds.
C23_IncompatibleOptionsFail ==
    (ret # <<>> /\ HasIncompatiblePair(args.opts)) => ret.err # "none"

\* --------------------------------------------------------------- ParseURI
\* An identifier is a sequence of characters.  The characters that matter
\* to the two regular expressions are ":" and "."; the literal parts of the
\* long form ("projects/", "/locations/", "/clusters/", "/instances/") are
\* written as one element each, and every other character is a letter.

\* s[a..b]
Sub(s, a, b) == [k \in 1..(b - a + 1) |-> s[a + k - 1]]
\* [^:]+ matches s[a..b]
NoColon(s, a, b) == a <= b /\ \A k \in a..b : s[k] # ":"
\* the end of the longest match of [^:]+ that begins at a
RunEnd(s, a) ==
    CHOOSE b \in a..Len(s) :
        NoColon(s, a, b) /\ (b = Len(s) \/ s[b + 1] = ":")
\* the matches of instURIRegex in s (part_005:28), by the places of the
\* four literals; the group between the first two is [^:]+(:[^:]+)?
LongMatches(s) ==
    {m \in (DOMAIN s) \X (DOMAIN s) \X (DOMAIN s) \X (DOMAIN s) :
        /\ s[m[1]] = "projects/" /\ s[m[2]] = "/locations/"
        /\ s[m[3]] = "/clusters/" /\ s[m[4]] = "/instances/"
        /\ m[1] < m[2] /\ m[2] < m[3] /\ m[3] < m[4] /\ m[4] < Len(s)
        /\ \/ NoColon(s, m[1] + 1, m[2] - 1)
           \/ \E k \in (m[1] + 2)..(m[2] - 2) :
                 /\ s[k] = ":"
                 /\ NoColon(s, m[1] + 1, k - 1)
                 /\ NoColon(s, k + 1, m[2] - 1)
        /\ NoColon(s, m[2] + 1, m[3] - 1)
        /\ NoColon(s, m[3] + 1, m[4] - 1)
        /\ s[m[4] + 1] # ":"}

\* the matches of shortURI in s (part_005:30), by the place where the match
\* begins and the places of the three dots
Dots(s) == {k \in DOMAIN s : s[k] = "."}
ShortMatches(s) ==
    {m \in (DOMAIN s) \X Dots(s) \X Dots(s) \X Dots(s) :
        /\ NoColon(s, m[1], m[2] - 1)
        /\ NoColon(s, m[2] + 1, m[3] - 1)
        /\ NoColon(s, m[3] + 1, m[4] - 1)
        /\ m[4] < Len(s) /\ s[m[4] + 1] # ":"}

\* FindSubmatch returns the leftmost match, and of the matches that begin
\* there the one in which each group, from the left, is as long as it can
\* be: m comes before n
Before(m, n) ==
    \/ m[1] < n[1]
    \/ m[1] = n[1] /\ m[2] > n[2]
    \/ m[1] = n[1] /\ m[2] = n[2] /\ m[3] > n[3]
    \/ m[1] = n[1] /\ m[2] = n[2] /\ m[3] = n[3] /\ m[4] >= n[4]
FindSubmatch(M) == CHOOSE m \in M : \A n \in M : Before(m, n)

URI(proj, reg, clust, name) ==
    [Project |-> proj, Region |-> reg, Cluster |-> clust, Name |-> name]
ConfigError(uri) == [err |-> "ConfigError", uri |-> uri]

\* ParseURI, part_005:64-93
ParseURI(uri) ==
    IF LongMatches(uri) # {}
    THEN LET m == FindSubmatch(LongMatches(uri))
         IN  [err |-> "none",
              key |-> URI(Sub(uri, m[1] + 1, m[2] - 1),
                          Sub(uri, m[2] + 1, m[3] - 1),
                          Sub(uri, m[3] + 1, m[4] - 1),
                          Sub(uri, m[4] + 1, RunEnd(uri, m[4] + 1)))]
    ELSE IF ShortMatches(uri) # {}
    THEN LET m == FindSubmatch(ShortMatches(uri))
         IN  [err |-> "none",
              key |-> URI(Sub(uri, m[1], m[2] - 1),
                          Sub(uri, m[2] + 1, m[3] - 1),
                          Sub(uri, m[3] + 1, m[4] - 1),
                          Sub(uri, m[4] + 1, RunEnd(uri, m[4] + 1)))]
    ELSE ConfigError(uri)

\* the identifiers ParseURI is called with: the two forms, with parts that
\* are names, empty, or hold colons, alone or with characters before and
\* after them, and the inputs of TestParseConnNameErrors (part_005:179-210)
LongForm(proj, reg, clust, name) ==
    <<"projects/">> \o proj \o <<"/locations/">> \o reg \o <<"/clusters/">> \o clust
        \o <<"/instances/">> \o name
ShortForm(proj, reg, clust, name) ==
    proj \o <<".">> \o reg \o <<".">> \o clust \o <<".">> \o name
Owners == {<<"o">>, <<"o", ".", "o">>, <<"o", ".", "o", ".", "o", ".", "o">>}
Affixes == {<<>>, <<"x">>, <<":">>, <<"x", ":">>, <<":", "x">>}
    \cup {o \o <<":">> : o \in Owners}
UriNext ==
    /\ ret = <<>>
    /\ ret' = ParseURI(args)
    /\ UNCHANGED <<args, tasks, program>>

UriInit ==
    /\ Offline
    /\ args \in
         {a \o LongForm(pj, rg, cl, nm) \o z :
             a \in Affixes, z \in {<<>>, <<":", "x">>},
             pj \in {<<"p">>, <<>>, <<"o", ":", "o", ":", "p">>}
                       \cup {o \o <<":", "p">> : o \in Owners},
             rg \in {<<"r">>, <<>>}, cl \in {<<"c">>}, nm \in {<<"i">>, <<>>}}
         \cup {a \o ShortForm(pj, rg, cl, nm) \o z :
             a \in Affixes, z \in {<<>>, <<":", "x">>}, pj \in {<<"p">>, <<>>},
             rg \in {<<"r">>, <<>>}, cl \in {<<"c">>}, nm \in {<<"i">>, <<>>}}
         \cup {<<"x">>, <<"r", ":", "c", ":", "i">>, <<":", ":", ":", ":">>, <<>>}
    /\ ret = <<>> /\ tasks = <<>>
\* the calls of ParseURI, one per behaviour
UriSpec == UriInit /\ [][UriNext]_vars

\* a part of an identifier: letters, and dots where the form allows them
IsPart(t, dotted) ==
    /\ t # <<>>
    /\ \A k \in DOMAIN t : t[k] \in {"p", "r", "c", "i", "o", "x"} \/ (dotted /\ t[k] = ".")
\* the whole of s is the long form; its project is a part, or two parts
\* with a colon between
WholeLong(s) ==
    \E k2, k3, k4 \in DOMAIN s :
        /\ s[1] = "projects/" /\ s[k2] = "/locations/"
        /\ s[k3] = "/clusters/" /\ s[k4] = "/instances/"
        /\ \/ IsPart(Sub(s, 2, k2 - 1), TRUE)
           \/ \E k \in 2..(k2 - 1) :
                 /\ s[k] = ":"
                 /\ IsPart(Sub(s, 2, k - 1), TRUE)
                 /\ IsPart(Sub(s, k + 1, k2 - 1), TRUE)
        /\ IsPart(Sub(s, k2 + 1, k3 - 1), TRUE)
        /\ IsPart(Sub(s, k3 + 1, k4 - 1), TRUE)
        /\ IsPart(Sub(s, k4 + 1, Len(s)), TRUE)
\* the whole of s is the short form, without a colon
WholeShort(s) ==
    \E d1, d2, d3 \in Dots(s) :
        /\ IsPart(Sub(s, 1, d1 - 1), FALSE)
        /\ IsPart(Sub(s, d1 + 1, d2 - 1), FALSE)
        /\ IsPart(Sub(s, d2 + 1, d3 - 1), FALSE)
        /\ IsPart(Sub(s, d3 + 1, Len(s)), FALSE)

\* C24: ParseURI accepts an identifier only if the whole of it is the long
\* form (the project with at most one colon inside) or the short form
\* without any colon, the four parts not empty; every other identifier is
\* rejected with a ConfigError that carries the identifier.
C24_OnlyWholeFormsAccepted ==
    ret # <<>> =>
        (ret.err = "none" => WholeLong(args) \/ WholeShort(args))
            /\ (ret.err # "none" => ret = ConfigError(args))

\* C25: ParseURI applied to the short form with a domain scope before it,
\* <owner>:<P>.<R>.<C>.<I>, succeeds and returns Project <P>, Region <R>,
\* Cluster <C> and Name <I>, the key it returns for <P>.<R>.<C>.<I>; the
\* owner is no part of the key.
C25_OwnerPrefixIgnored ==
    ret # <<>> =>
        \A o \in Owners :
            LET short == ShortForm(<<"p">>, <<"r">>, <<"c">>, <<"i">>) IN
            args = o \o <<":">> \o short
                => /\ ret.err = "none"
                   /\ ret.key = URI(<<"p">>, <<"r">>, <<"c">>, <<"i">>)
                   /\ ret = ParseURI(short)

\* ------------------------------------------------ refresher.performRefresh
\* An error is its chain of causes, outermost first; each link has a kind
\* and the instance it names ("" when it names none).
Link(kind, uri) == [kind |-> kind, inst |-> uri]
\* fmt.Errorf("...: %w", err)
Errorf(err) == <<Link("wrapped", "")>> \o err
\* errtype.NewConfigError(msg, inst)
NewConfigError(uri) == <<Link("ConfigError", uri)>>
\* errtype.NewRefreshError(msg, inst, err): the cause stays in the chain
NewRefreshError(uri, err) == <<Link("RefreshError", uri)>> \o err
\* ctx.Err() of a cancelled context
Canceled == <<Link("Canceled", "")>>
\* errors.Is(err, target)
ErrorsIs(err, kind) == \E k \in DOMAIN err : err[k].kind = kind

\* a control-plane call under ctx: cancelled before the call it fails with
\* the context's error, cancelled during the call it fails so or answers
CallUnder(ctx, uri, answered) ==
    (IF ctx = "cancelled" THEN {} ELSE {answered})
        \cup (IF ctx = "live" THEN {}
              ELSE {[err |-> NewRefreshError(uri, Canceled)]})

\* fetchInstanceInfo, refresh.go:55-92
fetchInstanceInfo(ctx, uri, ans) ==
    CallUnder(ctx, uri,
        IF ans.err
        THEN [err |-> NewRefreshError(uri, <<Link("GetConnectionInfo", "")>>)]
        ELSE IF ans.addrs = {}
        THEN [err |-> NewConfigError(uri)]
        ELSE [err |-> <<>>, ipAddrs |-> ans.addrs])

\* fetchClientCertificate, refresh.go:121-210
fetchClientCertificate(ctx, uri, ans) ==
    CallUnder(ctx, uri,
        IF ans.err
        THEN [err |-> NewRefreshError(uri,
                          <<Link("GenerateClientCertificate", "")>>)]
        ELSE [err |-> <<>>, expiry |-> ans.notAfter])

NoConnectionInfo == [Instance |-> "", IPAddrs |-> {}, Expiration |-> NoExpiry]

\* a refresh that stamps the record with the default lifetime
buildInfoDefaultExpiry(i, info, cc) ==
    [Instance |-> i, IPAddrs |-> info.ipAddrs,
     Expiration |-> now + CertLifetime]

\* refresh.go:304-312: the record built from the two answers
buildInfo(i, info, cc) ==
    [Instance |-> i, IPAddrs |-> info.ipAddrs, Expiration |-> cc.expiry]

\* a second select that does not look at the certificate's error
certSelectIgnoresError(ctx, i, info, certs) ==
    {[info |-> buildInfo(i, info,
                  IF cc.err = <<>> THEN cc ELSE [expiry |-> NoExpiry]),
      err |-> <<>>] : cc \in certs}

\* refresh.go:291-302: the second select
certSelect(ctx, i, info, certs) ==
    {IF cc.err # <<>>
     THEN [info |-> NoConnectionInfo, err |-> Errorf(cc.err)]
     ELSE [info |-> buildInfo(i, info, cc), err |-> <<>>] : cc \in certs}
    \cup (IF ctx = "live" THEN {}
          ELSE {[info |-> NoConnectionInfo, err |-> Errorf(Canceled)]})

\* refresher.performRefresh, refresh.go:242-314: the results it can return.
\* Each select takes the answer of its goroutine or, the context being
\* cancelled, ctx.Done(); when both are ready either is taken.
refresherPerformRefresh(ctx, i, md, cert) ==
    LET mds   == fetchInstanceInfo(ctx, i, md)
        certs == fetchClientCertificate(ctx, i, cert)
    IN  UNION {IF m.err # <<>>
               THEN {[info |-> NoConnectionInfo, err |-> Errorf(m.err)]}
               ELSE certSelect(ctx, i, m, certs) : m \in mds}
        \cup (IF ctx = "live" THEN {}
              ELSE {[info |-> NoConnectionInfo, err |-> Errorf(Canceled)]})

\* the refresher is called for the instance args.inst
RefreshNext ==
    /\ ret = <<>>
    /\ \E r \in refresherPerformRefresh(args.ctx, args.inst, args.md, args.cert) :
          ret' = r
    /\ UNCHANGED <<args, tasks, program>>

\* the inputs of a refresh.  ctx: not cancelled, cancelled before the call,
\* or cancelled while the two control-plane calls are under way.  md: the
\* answer of GetConnectionInfo, a failure or the addresses the instance has,
\* possibly none.  cert: the answer of GenerateClientCertificate, a failure
\* (of the call or of the parsing of what it returned) or a chain whose leaf
\* expires at notAfter.
RefreshInit ==
    /\ Offline
    /\ args \in [inst : {"my-instance", "other-instance"},
                 ctx : {"live", "cancelled", "late"},
                 md : {[err |-> TRUE, addrs |-> {}]}
                          \cup {[err |-> FALSE, addrs |-> a] :
                                   a \in SUBSET IpTypes},
                 cert : {[err |-> TRUE, notAfter |-> NoExpiry]}
                          \cup {[err |-> FALSE, notAfter |-> n] :
                                   n \in {CertLifetime,
                                          CertLifetime + TickStep}}]
    /\ ret = <<>> /\ tasks = <<>>
\* the calls of refresher.performRefresh, one per behaviour
RefreshSpec == RefreshInit /\ [][RefreshNext]_vars

\* C26: every record a refresh for the instance k returns names k, expires
\* when the leaf certificate does (NotAfter) and has at least one endpoint;
\* a control-plane answer without any endpoint ends in a configuration
\* error.
C26_RecordMatchesRefresh ==
    ret # <<>> =>
        /\ ret.err = <<>> =>
              /\ ret.info.Instance = args.inst
              /\ ret.info.Expiration = args.cert.notAfter
              /\ ret.info.IPAddrs = args.md.addrs
              /\ ret.info.IPAddrs # {}
        /\ (~args.md.err /\ args.md.addrs = {}) =>
              /\ ret.err # <<>>
              /\ args.ctx = "live" => ErrorsIs(ret.err, "ConfigError")

C26_Witness ==
    /\ ret # <<>> /\ ret.err = <<>>
    /\ args.inst = "other-instance"
    /\ args.cert.notAfter = CertLifetime + TickStep
    /\ ret.info.IPAddrs = {"PRIVATE", "PSC"}

\* the metadata operation fails: the call does, or the answer has no address
MdFails(a) == a.err \/ a.addrs = {}

\* C30: performRefresh returns a record only if both control-plane
\* operations succeeded; if one of them fails, or the context is cancelled
\* before the call, it returns no record and an error whose chain of causes
\* holds the error of a failed operation or the cancellation.
C30_RecordOnlyIfBothSucceed ==
    ret # <<>> =>
        /\ ret.err = <<>> =>
              /\ ~MdFails(args.md) /\ ~args.cert.err
              /\ ret.info # NoConnectionInfo
        /\ (MdFails(args.md) \/ args.cert.err \/ args.ctx = "cancelled") =>
              /\ ret.info = NoConnectionInfo
              /\ \/ args.md.err /\ ErrorsIs(ret.err, "GetConnectionInfo")
                 \/ ~args.md.err /\ args.md.addrs = {}
                        /\ ErrorsIs(ret.err, "ConfigError")
                 \/ args.cert.err
                        /\ ErrorsIs(ret.err, "GenerateClientCertificate")
                 \/ args.ctx # "live" /\ ErrorsIs(ret.err, "Canceled")

C30_Witness ==
    /\ ret # <<>>
    /\ args.ctx = "live" /\ ~MdFails(args.md) /\ args.cert.err
    /\ ret.info = NoConnectionInfo
    /\ ErrorsIs(ret.err, "GenerateClientCertificate")

\* ------------------------------------------------------------ Dialer.lock
\* d.lock.RLock(), dialer.go:553: no goroutine holds the write lock
DialRLock(d) ==
    /\ dials[d].pc = "lookup"
    /\ dials[d].lk = ""
    /\ \A e \in Dials : dials[e].lk # "W"
    /\ dials' = [dials EXCEPT ![d].lk = "R"]
    /\ UNCHANGED <<now, lazyRefresh, pool, call, inst, lazy, cpFails, callers, dialerRest>>

\* d.lock.Lock(), dialer.go:557 and 366: no goroutine holds the lock
DialLock(d) ==
    /\ dials[d].pc \in {"insert", "remove"}
    /\ \A e \in Dials : dials[e].lk = ""
    /\ dials' = [dials EXCEPT ![d].lk = "W"]
    /\ UNCHANGED <<now, lazyRefresh, pool, call, inst, lazy, cpFails, callers, dialerRest>>

\* Two goroutines in Dial, of a Dialer of either variant, with the taking
\* of d.lock and what is done under it as steps of their own.
LockNext ==
    \/ \E d \in Dials, u \in Uris : DialStart(d, u)
    \/ \E d \in Dials : DialRLock(d)
    \/ \E d \in Dials : dials[d].lk = "R" /\ connectionInfoCacheRead(d)
    \/ \E d \in Dials : DialLock(d)
    \/ \E d \in Dials : dials[d].lk = "W" /\ connectionInfoCacheInsert(d)
    \/ \E d \in Dials : dials[d].lk = "W" /\ removeCached(d)
    \/ \E d \in Dials : DialConnectionInfo(d)
    \/ \E d \in Dials : DialWaitReady(d)
    \/ \E d \in Dials : DialCtxDone(d)
    \/ \E d \in Dials : DialLazyFinish(d)
    \/ \E d \in Dials : DialCheckCert(d)
    \/ \E d \in Dials : DialConnect(d)
    \/ \E d \in Dials : DialReturn(d)
    \/ \E i \in CacheIds : FireTimer(i)
    \/ \E i \in CacheIds : FinishRefresh(i)
    \/ \E i \in CacheIds : CompleteRefresh(i)

LockSpec == DialerInit /\ [][LockNext]_vars

\* C27: Dial never holds the Dialer's map lock while it waits on
\* ConnectionInfo, the TCP connect, the TLS handshake or the metadata
\* exchange; the lock is held only for the lookup, the insertion and the
\* deletion in the map.  At "info", "wait", "refreshing" and "got" Dial is
\* in, or about to call, the cache's ConnectionInfo; at "connect" it is in
\* the dial function, the TLS handshake and the metadata exchange.
C27_NoWaitUnderLock ==
    \A d \in Dials :
        /\ dials[d].pc \in {"info", "wait", "refreshing", "got", "connect"} => dials[d].lk = ""
        /\ dials[d].lk = "R" => dials[d].pc = "lookup"
        /\ dials[d].lk = "W" => dials[d].pc \in {"insert", "remove"}

C27_Witness ==
    \E d, e \in Dials :
        /\ dials[d].lk = "W" /\ dials[d].pc = "remove"
        /\ dials[e].pc = "refreshing"

\* no refresh of the cache has completed yet: no operation has closed its
\* ready channel
NoneCompleted(c) ==
    /\ c.lastGood = NoExpiry /\ ~c.owed
    /\ \A o \in OpIds : c.ops[o].st \notin {"ready", "done"}

\* C28: from the construction of a refresh-ahead cache until its first
\* refresh completes, no ConnectionInfo call returns a record: cur is next,
\* every call waits on the operation it read from cur, and a call returns
\* only with the result of that operation or with the cancellation of its
\* own context.
C28_BlocksUntilFirstRefresh ==
    /\ [](~lazyRefresh /\ RA.alive /\ NoneCompleted(RA)
            => /\ RA.cur = RA.next
               /\ \A c \in Callers :
                     /\ callers[c].pc = "wait" =>
                           SnapOp(c).st \in {"scheduled", "running", "stopped"}
                     /\ Returned(c) => callers[c].res = "ctx")
    /\ [][\A c \in Callers :
            (~lazyRefresh /\ callers[c].pc = "wait" /\ callers'[c].pc = "ret")
                => \/ callers'[c].res = "ctx"
                   \/ /\ SnapOp(c).st \in {"ready", "done"}
                      /\ callers'[c].res = IF SnapOp(c).err THEN "err" ELSE "ok"
         ]_vars

C28_Witness ==
    /\ ~lazyRefresh /\ RA.alive /\ NoneCompleted(RA)
    /\ \E c \in Callers :
          /\ callers[c].pc = "wait"
          /\ callers[c].snap = RA.cur
          /\ SnapOp(c).st = "running"

\* ---------------------------------------------------- Instance.resultGuard
\* i.resultGuard.RLock(), instance.go:213
GuardRLock(c, i) ==
    /\ inst[i].alive
    /\ callers[c].pc = "idle"
    /\ inst[i].guard = ""
    /\ inst' = [inst EXCEPT ![i].guard = c]
    /\ UNCHANGED <<now, lazyRefresh, pool, call, lazy, cpFails, callers, dialerVars>>

\* i.resultGuard.Lock() in ForceRefresh (instance.go:201) and in the
\* function of a refresh whose performRefresh has returned (instance.go:233)
GuardLock(i, who) ==
    /\ inst[i].alive
    /\ inst[i].guard = ""
    /\ who = "refresh" => \E o \in OpIds : inst[i].ops[o].st = "ready"
    /\ inst' = [inst EXCEPT ![i].guard = who]
    /\ UNCHANGED <<now, lazyRefresh, pool, call, lazy, cpFails, callers, dialerVars>>

\* One refresh-ahead cache with the taking of resultGuard and what is done
\* under it as steps of their own, the clock standing still.
GuardNext ==
    \/ FireTimer(TheCache)
    \/ FinishRefresh(TheCache)
    \/ GuardLock(TheCache, "refresh")
    \/ RA.guard = "refresh" /\ CompleteRefresh(TheCache)
    \/ GuardLock(TheCache, "force")
    \/ RA.guard = "force" /\ ForceRefresh(TheCache)
    \/ Close(TheCache)
    \/ \E c \in Readers : GuardRLock(c, TheCache)
    \/ \E c \in Readers : RA.guard = c /\ result(c, TheCache)
    \/ \E c \in Callers : WaitReady(c)
    \/ \E c \in Callers : WaitCtxDone(c)
    \/ \E c \in Callers : Return(c)

GuardSpec == LiveInit /\ [][GuardNext]_vars

\* C29: a goroutine reading the refresh-ahead cache holds resultGuard only
\* to take its copy of cur and never while it waits on the operation;
\* whoever holds resultGuard (a reader, ForceRefresh, the function of a
\* refresh) can finish what it does under it and release it, so the three
\* cannot deadlock.
C29_GuardNeverHeldWhileWaiting ==
    /\ \A c \in Callers :
          /\ callers[c].pc \in {"wait", "ret"} => RA.guard # c
          /\ RA.guard = c => ENABLED result(c, TheCache)
    /\ RA.guard = "force" => ENABLED ForceRefresh(TheCache)
    /\ RA.guard = "refresh" => ENABLED CompleteRefresh(TheCache)

C29_Witness ==
    /\ RA.guard = "refresh"
    /\ \E c \in Callers : callers[c].pc = "wait" /\ SnapOp(c).st = "ready"

\* ------------------------------------------------- Dialer.metadataExchange
\* dialer.go:478  maxMessageSize = 16 * 1024, the length of a pooled buffer;
\* scaled down to a length prefix and two more bytes
maxMessageSize == 6

\* binary.BigEndian.PutUint32 and binary.BigEndian.Uint32
PutUint32(n) ==
    <<(n \div 16777216) % 256, (n \div 65536) % 256, (n \div 256) % 256,
      n % 256>>
Uint32(b) == ((b[1] * 256 + b[2]) * 256 + b[3]) * 256 + b[4]

\* the array arr after bs was stored in it from index at (0-based) on: what
\* PutUint32, an append within the capacity and a Read into a slice do
StoredNowhere(arr, at, bs) == arr
Stored(arr, at, bs) ==
    [k \in DOMAIN arr |->
        IF k > at /\ k <= at + Len(bs) THEN bs[k - at] ELSE arr[k]]

\* proto.Unmarshal and the test of the response code (dialer.go:465-473).
\* A well-formed response is a run of one byte value: 3 in a response with
\* the code OK, 4 in one with another code; the empty message has the zero
\* code, which is not OK.
Unmarshal(bs) ==
    IF bs # <<>> /\ \A k \in DOMAIN bs : bs[k] = 3 THEN "none"
    ELSE IF \A k \in DOMAIN bs : bs[k] = 4 THEN "response"
    ELSE "unmarshal"

\* the deferred conn.SetDeadline(time.Time{}) of dialer.go:439 and 451
ClearedOnSuccessOnly(err) == IF err = "none" THEN "cleared" ELSE "armed"
DeferredClear(err) == "cleared"

\* metadataExchange, dialer.go:409-475.  a.pooled is the array of the
\* buffer taken from the pool, a.req the marshalled request, a.fail the
\* call that fails (if any), a.first the bytes the first Read delivers and
\* a.short whether the second Read delivers a byte less than it could.
\* err "panic": a slice expression out of range.
metadataExchange(a) ==
    LET need == 4 + Len(a.req)
        grown == need > maxMessageSize
        pooled1 == Stored(a.pooled, 0, PutUint32(Len(a.req)))
        \* append(buf[:4], m...): in place, or in a new array when the
        \* request does not fit
        arr1 == IF grown THEN PutUint32(Len(a.req)) \o a.req
                ELSE Stored(pooled1, 4, a.req)
        frame == Sub(arr1, 1, need)
        \* what the peer sends: the length it announces and as many
        \* payload bytes
        stream == PutUint32(a.announced) \o [k \in 1..a.announced |-> a.kind]
        arr2 == Stored(arr1, 0, Sub(stream, 1, a.first))
        respSize == Uint32(arr2)
        avail == Len(stream) - a.first
        could == Min({respSize, avail})
        n2 == IF a.short /\ could >= 2 THEN could - 1 ELSE could
        arr3 == Stored(arr2, 0, Sub(stream, a.first + 1, a.first + n2))
        resp == Sub(arr3, 1, respSize)
        early == [err |-> a.fail, wrote |-> FALSE, frame |-> <<>>,
                  armedAtWrite |-> FALSE, reads |-> 0, armedAtRead |-> FALSE,
                  nLen |-> 0, nPayload |-> 0, unmarshalled |-> FALSE,
                  resp |-> <<>>, deadline |-> "unset", pooled |-> a.pooled]
        set == [early EXCEPT !.pooled = IF grown THEN pooled1 ELSE arr1,
                             !.deadline = DeferredClear(a.fail)]
        sent == [set EXCEPT !.wrote = TRUE, !.frame = frame,
                            !.armedAtWrite = TRUE]
        read1 == [sent EXCEPT !.reads = 1, !.armedAtRead = TRUE,
                              !.nLen = a.first,
                              !.pooled = IF grown THEN pooled1 ELSE arr2]
        read2 == [read1 EXCEPT !.reads = 2, !.nPayload = n2,
                               !.pooled = IF grown THEN pooled1 ELSE arr3]
    IN  IF a.fail = "token" THEN early
        ELSE IF a.fail = "deadline1"
        THEN [early EXCEPT !.pooled = IF grown THEN pooled1 ELSE arr1]
        ELSE IF a.fail = "write" THEN [set EXCEPT !.armedAtWrite = TRUE]
        ELSE IF a.fail = "deadline2" THEN sent
        ELSE IF a.fail = "read1"
        THEN [sent EXCEPT !.reads = 1, !.armedAtRead = TRUE]
        ELSE IF respSize > Len(arr1)
        THEN [read1 EXCEPT !.err = "panic",
                           !.deadline = DeferredClear("panic")]
        ELSE IF a.fail = "read2" \/ (respSize > 0 /\ avail = 0)
        THEN [read1 EXCEPT !.err = "read2", !.reads = 2,
                           !.deadline = DeferredClear("read2")]
        ELSE [read2 EXCEPT !.err = Unmarshal(resp),
                           !.deadline = DeferredClear(Unmarshal(resp)),
                           !.unmarshalled = TRUE, !.resp = resp]

\* the exchanges of one Dialer: the buffer the pool hands out is a new one
\* (sync.Pool's New, dialer.go:482-487) or the one an earlier exchange put
\* back
MdxArgs(pooled) ==
    {a \in [pooled : {pooled},
            req : {<<>>, <<1>>, <<2, 1>>}
                     \cup {[k \in 1..(maxMessageSize - 3) |-> 1]},
            fail : {"none", "token", "deadline1", "write", "deadline2",
                    "read1", "read2"},
            announced : {0, 1, 2, maxMessageSize, maxMessageSize + 1},
            kind : {3, 4},
            first : {2, 4},
            short : BOOLEAN] :
        \* what the peer sends and how it arrives is varied for the calls
        \* in which nothing else fails, the code of the response for the
        \* responses of one byte
        /\ a.fail # "none" => a.announced = 2 /\ a.first = 4 /\ ~a.short
        /\ a.kind = 4 => a.announced = 1 /\ a.first = 4 /\ ~a.short}

\* metadataExchange is called
MdxCall ==
    /\ args # <<>> /\ ret = <<>>
    /\ ret' = metadataExchange(args)
    /\ UNCHANGED <<args, tasks, program>>

\* the next Dial of the Dialer reaches its metadata exchange, unless the
\* process has crashed
MdxAgain ==
    /\ ret # <<>> /\ ret.err # "panic"
    /\ args' \in MdxArgs(ret.pooled)
                    \cup MdxArgs([k \in 1..maxMessageSize |-> 0])
    /\ ret' = <<>>
    /\ UNCHANGED <<tasks, program>>

MdxInit ==
    /\ Offline
    /\ args \in MdxArgs([k \in 1..maxMessageSize |-> 0])
    /\ ret = <<>> /\ tasks = <<>>
MdxNext == MdxCall \/ MdxAgain
\* the metadata exchanges of one Dialer, one after the other
MdxSpec == MdxInit /\ [][MdxNext]_vars

\* C31: the response is parsed only after exactly 4 length bytes and then
\* exactly N payload bytes, N the length the peer announced, have been read
\* from the stream, however the peer's bytes are delivered: what is parsed
\* is the payload the peer sent.
C31_ParsesWholeResponseOnly ==
    (ret # <<>> /\ ret.unmarshalled) =>
        /\ ret.nLen = 4
        /\ ret.nPayload = args.announced
        /\ ret.resp = [k \in 1..args.announced |-> args.kind]

\* C32: the request written to the stream is exactly the 4-byte big-endian
\* length N of the serialized request followed by those N bytes, whatever
\* an earlier exchange left in the pooled buffer.
C32_FrameIsLengthThenRequest ==
    (ret # <<>> /\ ret.wrote) =>
        /\ Len(ret.frame) = 4 + Len(args.req)
        /\ \A k \in 1..3 : ret.frame[k] = 0
        /\ ret.frame[4] = Len(args.req)
        /\ \A k \in DOMAIN args.req : ret.frame[4 + k] = args.req[k]

C32_Witness ==
    /\ ret # <<>> /\ ret.wrote
    /\ Len(args.req) = 1
    /\ args.pooled[5] \notin {0, args.req[1]}
    /\ args.pooled[6] # 0

\* C33: a deadline is armed on the stream when the request is written and
\* when the response is read, and whenever metadataExchange returns after a
\* deadline was set, with success or with any error, the deadline has been
\* cleared.
C33_DeadlineArmedAndCleared ==
    ret # <<>> =>
        /\ ret.wrote => ret.armedAtWrite
        /\ ret.reads > 0 => ret.armedAtRead
        /\ ret.err \notin {"token", "deadline1"} => ret.deadline = "cleared"
        /\ ret.err = "none" => ret.deadline = "cleared"

C33_Witness ==
    /\ ret # <<>>
    /\ ret.err \in {"write", "deadline2", "read1", "read2", "unmarshal"}
    /\ ret.deadline = "cleared"

\* C38: a response whose length prefix announces more bytes than the pooled
\* buffer can hold makes metadataExchange return an error; it never slices
\* past the buffer, which would crash the process.
C38_OversizedResponseIsAnError ==
    (ret # <<>> /\ args.announced > maxMessageSize) =>
        ret.err \notin {"none", "panic"}

\* --------------------------------------------------- Dialer.removeCached
\* a Dialer with refresh-ahead caches, two of them within reach, and its
\* Dials up to the record or the error ConnectionInfo returns, with the
\* clock standing still
EvictInit == tasks = <<>> /\ NewDialer(FALSE, CacheIds)

EvictNext ==
    \/ \E d \in Dials, u \in Uris : DialStart(d, u)
    \/ \E d \in Dials : connectionInfoCacheRead(d)
    \/ \E d \in Dials : connectionInfoCacheInsert(d)
    \/ \E d \in Dials : DialConnectionInfo(d)
    \/ \E d \in Dials : DialWaitReady(d)
    \/ \E d \in Dials : DialCtxDone(d)
    \/ \E d \in Dials : removeCached(d)
    \/ \E d \in Dials : DialReturn(d)
    \/ \E i \in CacheIds : FireTimer(i)
    \/ \E i \in CacheIds : FinishRefresh(i)
    \/ \E i \in CacheIds : CompleteRefresh(i)

EvictSpec == EvictInit /\ [][EvictNext]_vars

\* C34: every cache that is out of the Dialer's map has been closed: a
\* failing Dial removes only the cache it fetched itself, never a newer one
\* that another Dial inserted meanwhile, so that no refresh-ahead cache
\* keeps refreshing while unreachable from the map.
C34_OnlyClosedCachesLeaveTheMap ==
    \A i \in CacheIds :
        (inst[i].alive /\ ~inst[i].cancelled) =>
            \E u \in Uris : cache[u].cid = i

\* C35: once Dialer.Close has returned, every cache of the Dialer has had
\* Close called on it and the map gets no new cache: a Dial that passed the
\* closed check while Close ran leaves no live cache behind.
C35_NoLiveCacheAfterClose ==
    closer = "returned" =>
        \A i \in CacheIds :
            /\ inst[i].alive => inst[i].cancelled
            /\ lazy[i].alive => lazy[i].shut

\* ------------------------------------------- concurrent Dialer.Close calls
\* the goroutines that call Dialer.Close at the same time, once each.
\* tasks[g]: "idle", "closing" (past the select, before close(d.closed)),
\* "locking" (before d.lock.Lock()), "returned" (Close returned nil),
\* "panicked"
Closers == {"k1", "k2"}

CloseInit ==
    /\ tasks = [g \in Closers |-> "idle"]
    /\ \E lz \in BOOLEAN : NewDialer(lz, {TheCache})

\* dialer.go:535-539: the select on <-d.closed
CloseCheck(g) ==
    /\ tasks[g] = "idle"
    /\ tasks' = [tasks EXCEPT ![g] =
          IF AlreadyClosed(closed) THEN "returned" ELSE "closing"]
    /\ UNCHANGED <<args, ret, program>>

\* dialer.go:540: close(d.closed)
CloseSignal(g) ==
    /\ tasks[g] = "closing"
    /\ tasks' = [tasks EXCEPT ![g] = CloseChan(closed, "locking")]
    /\ closed' = TRUE
    /\ UNCHANGED <<now, lazyRefresh, pool, args, ret, inst, lazy, cpFails,
                   callers, closer, closeCalls, cache, dials, conns, recorded>>

\* dialer.go:542-547: under Lock every cache of the map is closed, and Close
\* returns nil
CloseLocked(g) ==
    LET ids == {cache[u].cid : u \in Uris} \ {NoCache} IN
    /\ tasks[g] = "locking"
    /\ tasks' = [tasks EXCEPT ![g] = "returned"]
    /\ inst' = [i \in CacheIds |->
          IF i \in ids /\ ~lazyRefresh THEN DoClose(inst[i]) ELSE inst[i]]
    /\ lazy' = [i \in CacheIds |->
          IF i \in ids /\ lazyRefresh THEN DoLazyClose(lazy[i]) ELSE lazy[i]]
    /\ UNCHANGED <<now, lazyRefresh, pool, args, ret, cpFails, callers,
                   dialerVars>>

\* a panic in any goroutine ends the process
Alive == \A g \in DOMAIN tasks : tasks[g] # "panicked"

CloseNext ==
    \/ \E g \in Closers : Alive /\ CloseCheck(g)
    \/ \E g \in Closers : Alive /\ CloseSignal(g)
    \/ \E g \in Closers : Alive /\ CloseLocked(g)
    \/ \E d \in Dials, u \in Uris : Alive /\ DialStart(d, u)
    \/ \E d \in Dials : Alive /\ connectionInfoCacheRead(d)
    \/ \E d \in Dials : Alive /\ connectionInfoCacheInsert(d)
    \/ \E d \in Dials : Alive /\ DialReturn(d)

\* Dialer.Close called by several goroutines at once, while Dials look up
\* and insert caches
CloseSpec == CloseInit /\ [][CloseNext]_vars

\* C36: concurrent calls of Dialer.Close are safe: however two or more
\* calls interleave, the closed signal is closed exactly once (no call
\* closes the closed channel again, which panics) and every call returns
\* success.
C36_ConcurrentCloseIsSafe ==
    \A g \in Closers : tasks[g] # "panicked"

\* C37: the open-connection counter never wraps below zero: however the
\* increment that follows a successful Dial and the decrements of the
\* stream's Close calls interleave, the counter is never 2^CounterBits - 1
\* nor otherwise larger than the number of successful Dials, and the value
\* recorded is never negative.
C37_CounterNeverWraps ==
    /\ \A d \in Dials :
          /\ conns[d].oc # CounterMod - 1
          /\ conns[d].oc <= Cardinality({x \in Dials : conns[x].st # "none"})
    /\ \A u \in Uris : recorded[u] >= 0

\* ------------------------------- the goroutines of refresher.performRefresh
\* tasks.main: where performRefresh is: at the first select ("md"), at the
\* second ("cert"), or "returned"; tasks.info: what the first select
\* received; tasks.ctx: the context, "live" or "cancelled"; tasks.w[g]: the
\* goroutine g ("md": refresh.go:261-265, "cert": 272-276), its pc "calling"
\* (in the control-plane call), "sending" (at the channel send) or "done"
\* (the send is over and the deferred close has run), and the value val it
\* sends; tasks.ch[g]: the values in the buffer of mdCh and of certCh.

\* make(chan mdRes): a channel without buffer
Unbuffered(g) == 0

\* refresh.go:260, 271: make(chan mdRes, 1), make(chan certRes, 1)
Capacity(g) == 1

WorkInit ==
    /\ Offline
    /\ args \in [inst : {"my-instance"},
                 ctx : {"live", "cancelled", "late"},
                 md : {[err |-> TRUE, addrs |-> {}],
                       [err |-> FALSE, addrs |-> {"PRIVATE"}]},
                 cert : {[err |-> TRUE, notAfter |-> NoExpiry],
                         [err |-> FALSE, notAfter |-> CertLifetime]}]
    /\ ret = <<>>
    /\ tasks = [main |-> "md", info |-> <<>>,
                ctx |-> IF args.ctx = "cancelled" THEN "cancelled" ELSE "live",
                w |-> [g \in {"md", "cert"} |-> [pc |-> "calling", val |-> <<>>]],
                ch |-> [g \in {"md", "cert"} |-> <<>>]]

\* the caller of performRefresh cancels the context (Instance.Close, or the
\* deadline of the refresh)
WorkCancel ==
    /\ args.ctx = "late" /\ tasks.ctx = "live"
    /\ tasks' = [tasks EXCEPT !.ctx = "cancelled"]
    /\ UNCHANGED <<args, ret, program>>

\* refresh.go:263, 274: the control-plane call of goroutine g returns
WorkerReturn(g) ==
    LET ctx == IF tasks.ctx = "live" THEN "live" ELSE args.ctx
        answers == IF g = "md"
                   THEN fetchInstanceInfo(ctx, args.inst, args.md)
                   ELSE fetchClientCertificate(ctx, args.inst, args.cert)
    IN  /\ tasks.w[g].pc = "calling"
        /\ \E r \in answers :
              tasks' = [tasks EXCEPT !.w[g] = [pc |-> "sending", val |-> r]]
        /\ UNCHANGED <<args, ret, program>>

\* refresh.go:264, 275 and 262, 273: mdCh <- ..., certCh <- ...: the send
\* goes through when the buffer has room or the receiver is at its select;
\* then the deferred close(ch) runs and the goroutine ends
WorkerSend(g) ==
    /\ tasks.w[g].pc = "sending"
    /\ Len(tasks.ch[g]) < Capacity(g) \/ tasks.main = g
    /\ tasks' = [tasks EXCEPT !.ch[g] = Append(@, tasks.w[g].val),
                              !.w[g] = [pc |-> "done", val |-> <<>>]]
    /\ UNCHANGED <<args, ret, program>>

\* refresh.go:279-289: the first select, on mdCh and ctx.Done()
MainSelectMd ==
    /\ tasks.main = "md"
    /\ \/ /\ tasks.ch["md"] # <<>>
          /\ LET r == Head(tasks.ch["md"]) IN
             IF r.err # <<>>
             THEN /\ ret' = [info |-> NoConnectionInfo, err |-> Errorf(r.err)]
                  /\ tasks' = [tasks EXCEPT !.main = "returned",
                                            !.ch["md"] = Tail(@)]
             ELSE /\ ret' = ret
                  /\ tasks' = [tasks EXCEPT !.main = "cert", !.info = r,
                                            !.ch["md"] = Tail(@)]
       \/ /\ tasks.ctx = "cancelled"
          /\ ret' = [info |-> NoConnectionInfo, err |-> Errorf(Canceled)]
          /\ tasks' = [tasks EXCEPT !.main = "returned"]
    /\ UNCHANGED <<args, program>>

\* refresh.go:291-313: the second select, on certCh and ctx.Done(), and the
\* record built from the two answers
MainSelectCert ==
    /\ tasks.main = "cert"
    /\ \/ /\ tasks.ch["cert"] # <<>>
          /\ ret' \in certSelect("live", args.inst, tasks.info,
                                 {Head(tasks.ch["cert"])})
          /\ tasks' = [tasks EXCEPT !.main = "returned",
                                    !.ch["cert"] = Tail(@)]
       \/ /\ tasks.ctx = "cancelled"
          /\ ret' = [info |-> NoConnectionInfo, err |-> Errorf(Canceled)]
          /\ tasks' = [tasks EXCEPT !.main = "returned"]
    /\ UNCHANGED <<args, program>>

WorkNext ==
    \/ WorkCancel
    \/ \E g \in {"md", "cert"} : WorkerReturn(g)
    \/ \E g \in {"md", "cert"} : WorkerSend(g)
    \/ MainSelectMd
    \/ MainSelectCert

\* one call of performRefresh with its two goroutines, under the scheduling
\* of the Go runtime: a goroutine that can take a step takes it, and a
\* control-plane call made under a context returns
WorkSpec ==
    /\ WorkInit
    /\ [][WorkNext]_vars
    /\ \A g \in {"md", "cert"} : WF_vars(WorkerReturn(g))
    /\ \A g \in {"md", "cert"} : WF_vars(WorkerSend(g))

\* C40: both goroutines launched by performRefresh terminate and neither
\* blocks on delivering its result, even when performRefresh has already
\* returned because of a cancellation or because the other control-plane
\* call failed first.
C40_WorkersNeverBlock ==
    /\ [](\A g \in {"md", "cert"} :
             tasks.w[g].pc = "sending" => ENABLED WorkerSend(g))
    /\ <>(\A g \in {"md", "cert"} : tasks.w[g].pc = "done")

\* performRefresh has returned an error while a goroutine is still about to
\* send its result
C40_Witness ==
    /\ tasks.main = "returned" /\ ret.err # <<>>
    /\ \E g \in {"md", "cert"} : tasks.w[g].pc = "sending"

\* ------------------------------------------- the order of the records served
\* C39: the records a refresh-ahead cache serves are monotonic: once a call
\* of ConnectInfo has returned the record of the n-th started refresh, no
\* call made after it returns the record of a refresh started earlier,
\* whatever the interleaving of completions, failures and ForceRefresh.
C39_ServedRecordsAreMonotonic ==
    \A c \in Readers :
        (callers[c].pc = "ret" /\ callers[c].res = "ok"
                               /\ callers[c].snap # NoOp) =>
            inst[callers[c].cid].ops[callers[c].snap].nth
                >= inst[callers[c].cid].served

\* a call has returned the record of a refresh started later than the one a
\* call before it had returned, after a refresh failed
C39_Witness ==
    \E c \in Readers :
        /\ callers[c].pc = "ret" /\ callers[c].res = "ok"
        /\ callers[c].snap # NoOp
        /\ inst[callers[c].cid].served > 0
        /\ inst[callers[c].cid].ops[callers[c].snap].nth
               > inst[callers[c].cid].served
        /\ cpFails > 0

====
